---------------------------- MODULE Spec2Model ----------------------------
(***************************************************************************)
(* Audio-reactive visualizer: the beat detector (useBeatBrightness) and    *)
(* its band energy extractor, the parameter mappers, the canvas renderer   *)
(* (useCanvasVisualizer), the audio frame loop (useAudioVisualizer) and    *)
(* the index page that wires them under the browser's frame scheduler.     *)
(*                                                                         *)
(* Numbers.  The source computes in IEEE doubles.  Here every real value   *)
(* (band energies, smoothed baselines, envelope, levels, beatBoost) is a   *)
(* fixed-point integer counted in units of 1/Unit, and every product or    *)
(* quotient is rounded to the nearest unit (RDiv).  beatBoost, whose long   *)
(* decay tail ends at the snap threshold, is kept finer, in units of       *)
(* 1/BoostUnit.  Timestamps are whole milliseconds.  Band fractions are    *)
(* hundredths (FracDen).                                                   *)
(***************************************************************************)
EXTENDS Integers, Sequences, FiniteSets, TLC

(***************************************************************************)
(* Bounds of the model.                                                    *)
(***************************************************************************)
MaxTicks == 3
MaxAnalyserChanges == 3
MaxBins == 4
MaxRunTicks == 72
MaxPulses == 1
MaxTsAnalyserChanges == 3
MaxBoost == 7
MaxFrames == 3
MaxEvents == 4
MaxUrls == 2
MaxSettleTicks == 130
MaxAfterTicks == 50
MaxSilentTicks == 5
MaxCalls == 4
MaxRecCalls == 4
MaxClock == 2

(***************************************************************************)
(* Fixed-point arithmetic.  Levels and normalised energies are integers   *)
(* in units of 1/Unit; beatBoost, beatEnv and the combined relative energy *)
(* in units of 1/BoostUnit; the smoothed baselines in units of             *)
(* 1/(Unit * Scale).                                                       *)
(***************************************************************************)
Unit == 100 * 100
Fine == 10 * 10
BoostUnit == Unit * Fine

Min(a, b) == IF a < b THEN a ELSE b
Max(a, b) == IF a > b THEN a ELSE b

\* a / b rounded to the nearest integer (b > 0), halves rounded up.
RDiv(a, b) == (2 * a + b) \div (2 * b)

\* floor(sqrt(v)) by bisection, lo*lo <= v < (hi+1)*(hi+1).
RECURSIVE SqrtBisect(_, _, _)
SqrtBisect(v, lo, hi) ==
    IF lo >= hi THEN lo
    ELSE LET mid == (lo + hi + 1) \div 2
         IN  IF mid * mid <= v THEN SqrtBisect(v, mid, hi)
                               ELSE SqrtBisect(v, lo, mid - 1)

\* sqrt of a fixed-point x in [0, Unit].
Root(x) == SqrtBisect(x * Unit, 0, Unit)

\* fixed-point product of two values in [0, Unit].
Mul(a, b) == RDiv(a * b, Unit)

(***************************************************************************)
(* Configuration: defaultOpts overridden by the options the page passes.   *)
(***************************************************************************)
FracDen == 10 * 10
BassRange == <<0, 12>>                 \* bassRange: [0.0, 0.12]
MidRange == <<12, 50>>                 \* midRange: [0.12, 0.5]
BeatThresholdMulTenths == 14           \* beatThresholdMul: 1.4
BeatCooldownMs == 110                  \* beatCooldownMs: 110
SmoothingPercent == 5                  \* smoothingFactor: 0.05
RampDurationMs == 1000                 \* rampDurationMs: 1000
EPS == 1                               \* 1e-4, one unit
SignalEps == 10                        \* 0.001: the ramp starts above it
SnapThreshold == 1000                  \* 0.001 of BoostUnit: beatBoost snaps to 0 below it
DecayTenths == 9                       \* beatBoost.value *= 0.9
EnvSmoothingTenths == 1                \* envelope smoothing 0.1
BassWeightTenths == 7                  \* combined = bassRel * 0.7 + ...
MidWeightTenths == 3                   \* ... + midRel * 0.3

\* Math.pow(x, cfg.compressionGamma) for x in [0, 1], compressionGamma 0.7,
\* as the product of iterated square roots:
\* 0.7 ~ 1/2 + 1/8 + 1/16 + 1/128 + 1/256 + 1/2048 + 1/4096.
PowGamma(x) ==
    LET r1 == Root(x)
        r2 == Root(r1)
        r3 == Root(r2)
        r4 == Root(r3)
        r5 == Root(r4)
        r6 == Root(r5)
        r7 == Root(r6)
        r8 == Root(r7)
        r9 == Root(r8)
        r10 == Root(r9)
        r11 == Root(r10)
        r12 == Root(r11)
    IN  Mul(Mul(Mul(Mul(Mul(Mul(r1, r3), r4), r7), r8), r11), r12)

(***************************************************************************)
(* Band energy extractor, as inlined in the detector loop.                 *)
(* A frame is a sequence of magnitudes 0..255; bin i is frame[i + 1].      *)
(***************************************************************************)
\* Math.floor(frac * n), frac = num / FracDen
FloorFrac(num, n) == (num * n) \div FracDen

\* const bassStart = Math.max(0, Math.floor(bassStartFrac * n))
BandStart(range, n) == Max(0, FloorFrac(range[1], n))

\* const bassEnd = Math.max(bassStart + 1, Math.floor(bassEndFrac * n))
BandEnd(range, n) == Max(BandStart(range, n) + 1, FloorFrac(range[2], n))

\* freqArray[i]: undefined (falsy) outside the array
Bin(frame, i) == IF i >= 0 /\ i < Len(frame) THEN frame[i + 1] ELSE 0

\* for (let i = start; i < end; i++) { const v = freqArray[i]; if (v) { sum += v; count++ } }
RECURSIVE BandSum(_, _, _)
BandSum(frame, i, end) ==
    IF i >= end THEN 0
    ELSE Bin(frame, i) + BandSum(frame, i + 1, end)

RECURSIVE BandCount(_, _, _)
BandCount(frame, i, end) ==
    IF i >= end THEN 0
    ELSE (IF Bin(frame, i) # 0 THEN 1 ELSE 0) + BandCount(frame, i + 1, end)

\* (mutant) the sum is not divided by the count
BandNormNoCount(frame, range) ==
    LET n == Len(frame)
        s == BandSum(frame, BandStart(range, n), BandEnd(range, n))
    IN  RDiv(s * Unit, 255)

\* bassAvg = bassCount ? bassSum / bassCount : 0; bassNorm = bassAvg / 255
BandNorm(frame, range) ==
    LET n == Len(frame)
        s == BandSum(frame, BandStart(range, n), BandEnd(range, n))
        c == BandCount(frame, BandStart(range, n), BandEnd(range, n))
    IN  IF c # 0 THEN RDiv(s * Unit, c * 255) ELSE 0


(***************************************************************************)
(* The avgBand helper of the other useBeatBrightness in the tree           *)
(* (frontend/app/composables/useBeatBrightness.ts), divided by 255 as its  *)
(* caller does.                                                            *)
(***************************************************************************)
\* let start = Math.floor(startFrac * bins) ... start = Math.max(0, start)
AvgBandStart(range, bins) == Max(0, FloorFrac(range[1], bins))

\* let end = Math.floor(endFrac * bins); if (end <= start) end = start + 1;
\* end = Math.min(bins, end)
AvgBandEnd(range, bins) ==
    LET start == FloorFrac(range[1], bins)
        end == FloorFrac(range[2], bins)
    IN  Min(bins, IF end <= start THEN start + 1 ELSE end)

\* sum += value; count++ for every i in [start, end); count > 0 ? sum / count : 0
AvgBandNorm(frame, range) ==
    LET bins == Len(frame)
        start == AvgBandStart(range, bins)
        end == AvgBandEnd(range, bins)
        count == IF end > start THEN end - start ELSE 0
    IN  IF count > 0 THEN RDiv(BandSum(frame, start, end) * Unit, count * 255)
        ELSE 0

(***************************************************************************)
(* The spectrum source: the frames getByteFrequencyData may deliver.       *)
(* The low eighth of the bins holds lo, the rest hi; a gapped frame has    *)
(* every even bin of the upper part at zero.                               *)
(***************************************************************************)
NBins == 16
Dts == {16, 120}

Frame(n, lo, hi, gap) ==
    [i \in 1..n |-> IF (i - 1) * 8 < n THEN lo
                    ELSE IF gap /\ (i - 1) % 2 = 0 THEN 0 ELSE hi]

Frames(n) ==
    { Frame(n, 0, 0, FALSE),         \* silence
      Frame(n, 20, 20, FALSE),       \* quiet
      Frame(n, 255, 255, FALSE),     \* full scale
      Frame(n, 255, 20, FALSE),      \* bass hit
      Frame(n, 20, 200, TRUE) }      \* gapped mids

(***************************************************************************)
(* State of one useBeatBrightness instance.  A nullable value is a         *)
(* sequence: << >> is null, <<v>> is v.                                    *)
(***************************************************************************)
VARIABLES
    analyserRef,    \* analyserRef.value: << >> or <<frequencyBinCount>>
    freqArray,      \* << >> or <<length>>
    rafId,          \* TRUE iff rafId !== null
    rafQueue,       \* animation-frame requests of loop not yet run or cancelled
    smoothedBass, smoothedMid, beatEnv, lastBeatTime, startTs,
    bassLevel, midLevel, beatBoost, isBeat,
    now,            \* performance.now() of the latest callback
    ticks,          \* loop callbacks run so far
    changes,        \* analyser changes and start/stop calls so far
    tk,             \* what the latest loop callback computed
    beatTicks,      \* timestamps of the ticks that reported isBeat
    pulses,         \* full-scale frames delivered so far (SpecRun)
    dataArray,      \* useBeatBrightness.ts: << >> or <<length>>
    bassRunningAvg, \* useBeatBrightness.ts: rolling average of the bass target
    band,           \* the band extractor's input and result (SpecBand)
    map,            \* the parameter mappers' input and result (SpecMap)
    trial,          \* the transient experiment: its phase and tally (SpecSteady)
    \* useCanvasVisualizer
    canvasRef,      \* canvasRef.value: << >> or <<the element>>
    renderRafId,    \* TRUE iff the renderer's rafId !== null
    bgImg,          \* << >> or <<url of the loaded image>>
    noiseImg,       \* << >> or <<the loaded image: its url, and whether
                    \* createPattern can use it>>
    lastDpr, lastCanvasW, lastCanvasH,
    ctx,            \* << >> or <<the context: its canvas, the draw that got it>>
    centerGrad,     \* << >> or <<serial number of the gradient, its canvas>>
    edgeGrad,       \* << >> or <<serial number of the gradient, its canvas>>
    grainPattern,   \* << >> or <<the pattern: its image, its context>>
    canvasesMade,   \* canvas elements created so far
    patterns,       \* the patterns createPattern has returned, in order
    backgroundUrl,  \* state.backgroundUrl.value (useTempUrl's url)
    urlsMade,       \* object URLs created so far (useTempUrl)
    revoked,        \* the object URLs revoked so far
    loads,          \* image loads in flight
    unmounted,      \* the page component has been unmounted
    drawn,          \* what the latest drawFrame did
    \* useAudioVisualizer
    freq,           \* freq.value: << >> or <<length>>
    isPlaying,
    audioRafId,     \* TRUE iff useAudioVisualizer's rafId !== null
    audioCtx,       \* "none" (audioCtx.value null) or the context's state
    buffer,         \* buffer.value: << >> or <<its duration>>
    source,         \* source.value: << >> or <<index of the node in nodes>>
    nodes,          \* the buffer source nodes created, in order
    startTime, pauseOffset,
    currentTime,    \* audioCtx.currentTime
    decodes,        \* loadFile calls awaiting decodeAudioData
    resumes,        \* play calls awaiting audioCtx.resume()
    calls,          \* calls of the player's controls so far
    lastCall,       \* the latest step of the player, the clock's apart
    \* useCanvasRecorder
    isRecording,
    recorder,       \* << >> or <<index of the MediaRecorder in recs>>
    destNode,       \* << >> or <<the destination node>>
    recs,           \* the MediaRecorders started, in order
    destsMade,      \* destination nodes created so far
    connected,      \* destination nodes connected to the output node
    downloadUrl,    \* << >> or <<the recorder whose blob the URL is of>>
    error,          \* << >> or <<the message>>
    recCalls,       \* calls of startRecording and stopRecording so far
    \* the browser
    devicePixelRatio,   \* window.devicePixelRatio, in units of 1/DprDen
    pending,        \* animation-frame callbacks requested, in request order
    running,        \* callbacks of the frame under way still to be run
    frameNo,        \* display frames begun so far
    pulls,          \* getByteFrequencyData calls in the frame under way
    events          \* user and browser events so far

vars == <<analyserRef, freqArray, rafId, rafQueue, smoothedBass, smoothedMid,
          beatEnv, lastBeatTime, startTs, bassLevel, midLevel, beatBoost,
          isBeat, now, ticks, changes, tk, beatTicks, pulses, dataArray,
          bassRunningAvg, band, map, trial, canvasRef, renderRafId, bgImg, noiseImg,
          lastDpr, lastCanvasW, lastCanvasH, ctx, centerGrad, edgeGrad,
          grainPattern, canvasesMade, patterns, backgroundUrl, urlsMade,
          revoked, loads,
          unmounted, drawn, freq,
          isPlaying, audioRafId, audioCtx, buffer, source, nodes, startTime,
          pauseOffset, currentTime, decodes, resumes, calls, lastCall,
          isRecording, recorder, destNode, recs, destsMade, connected,
          downloadUrl, error, recCalls, devicePixelRatio, pending, running, frameNo, pulls, events>>

rendererVars == <<canvasRef, renderRafId, bgImg, noiseImg, lastDpr,
                  lastCanvasW, lastCanvasH, ctx, centerGrad, edgeGrad,
                  grainPattern, canvasesMade, patterns, backgroundUrl,
                  urlsMade, revoked, loads, unmounted, drawn>>
audioVars == <<freq, isPlaying, audioRafId>>
browserVars == <<devicePixelRatio, pending, running, frameNo, pulls,
                 events>>
\* useAudioVisualizer's playback state
playerVars == <<audioCtx, buffer, source, nodes, startTime, pauseOffset,
                currentTime, decodes, resumes, calls, lastCall>>
\* the parts modelled on their own, which the page's actions leave alone
\* useCanvasRecorder's state
recorderVars == <<isRecording, recorder, destNode, recs, destsMade,
                  connected, downloadUrl, error, recCalls>>
apartVars == <<playerVars, recorderVars>>
pageVars == <<rendererVars, audioVars, browserVars, apartVars>>

\* what the beat detector and the band extractor leave alone
otherVars == <<map, trial, pageVars>>

detectorState == <<smoothedBass, smoothedMid, beatEnv, lastBeatTime, startTs>>
outputs == <<bassLevel, midLevel, beatBoost, isBeat>>

NoTick == [kind |-> "none"]
NoBand == [phase |-> "none"]
NoMap == [phase |-> "none"]
NoTrial == [phase |-> "settling"]
NoDraw == [seq |-> 0]
NoiseUrl == 0                          \* opts.noiseImageUrl
DprDen == 10 * 10 * 10

\* The state after useBeatBrightness(analyserRef, opts) returns, analyserRef
\* holding null: watchEffect has run once (stopLoop(); freqArray = null).
InitDetector ==
    /\ analyserRef = << >>
    /\ freqArray = << >>
    /\ rafId = FALSE
    /\ rafQueue = 0
    /\ smoothedBass = 0
    /\ smoothedMid = 0
    /\ beatEnv = 0
    /\ lastBeatTime = 0
    /\ startTs = << >>
    /\ bassLevel = 0
    /\ midLevel = 0
    /\ beatBoost = 0
    /\ isBeat = FALSE
    /\ now = 0
    /\ ticks = 0
    /\ changes = 0
    /\ tk = NoTick
    /\ beatTicks = << >>
    /\ pulses = 0
    /\ dataArray = << >>
    /\ bassRunningAvg = 0

\* The state after useCanvasVisualizer(canvasRef, opts, state) and
\* useAudioVisualizer() return, canvasRef and backgroundUrl holding null: the
\* load of the noise image is in flight, both watchers have run once
\* (bgImg = null; stopLoop()).
InitPageVars ==
    /\ canvasRef = << >>
    /\ renderRafId = FALSE
    /\ bgImg = << >>
    /\ noiseImg = << >>
    /\ lastDpr = 0
    /\ lastCanvasW = 0
    /\ lastCanvasH = 0
    /\ ctx = << >>
    /\ centerGrad = << >>
    /\ edgeGrad = << >>
    /\ grainPattern = << >>
    /\ canvasesMade = 0
    /\ patterns = << >>
    /\ backgroundUrl = << >>
    /\ urlsMade = 0
    /\ revoked = {}
    /\ loads = {[kind |-> "noise", url |-> NoiseUrl]}
    /\ unmounted = FALSE
    /\ drawn = NoDraw
    /\ freq = << >>
    /\ isPlaying = FALSE
    /\ audioRafId = FALSE
    /\ audioCtx = "none"
    /\ buffer = << >>
    /\ source = << >>
    /\ nodes = << >>
    /\ startTime = 0
    /\ pauseOffset = 0
    /\ currentTime = 0
    /\ decodes = 0
    /\ resumes = 0
    /\ calls = 0
    /\ lastCall = "none"
    /\ isRecording = FALSE
    /\ recorder = << >>
    /\ destNode = << >>
    /\ recs = << >>
    /\ destsMade = 0
    /\ connected = {}
    /\ downloadUrl = << >>
    /\ error = << >>
    /\ recCalls = 0
    /\ pending = << >>
    /\ running = << >>
    /\ frameNo = 0
    /\ pulls = 0
    /\ events = 0

\* Nothing drawn for the parameter mappers; a device pixel ratio of 1.
InitOthers ==
    /\ map = NoMap /\ trial = NoTrial
    /\ InitPageVars /\ devicePixelRatio = DprDen

Init == InitDetector /\ band = NoBand /\ InitOthers

(***************************************************************************)
(* The band extractor on its own: a frame of 1..MaxBins bins and a band    *)
(* range with both fractions in [0, 1] are drawn, and either extractor is  *)
(* applied to them.                                                        *)
(***************************************************************************)
Fracs == {0, 12, 50, 100}
BandMags == {0, 20, 255}

BandInputs ==
    { [phase |-> "in", frame |-> f, range |-> <<a, b>>,
       start |-> 0, end |-> 0, norm |-> 0] :
        f \in UNION { [1..n -> BandMags] : n \in 1..MaxBins },
        a \in Fracs, b \in Fracs }

InitBand == InitDetector /\ band \in BandInputs /\ InitOthers

\* the band code inlined in loop (part_001)
ExtractInline ==
    /\ band.phase = "in"
    /\ band' = [band EXCEPT !.phase = "inline",
                            !.start = BandStart(band.range, Len(band.frame)),
                            !.end = BandEnd(band.range, Len(band.frame)),
                            !.norm = BandNorm(band.frame, band.range)]
    /\ UNCHANGED <<analyserRef, freqArray, rafId, rafQueue, detectorState,
                   outputs, now, ticks, changes, tk, beatTicks, pulses,
                   dataArray, bassRunningAvg, otherVars>>

\* avgBand(range) / 255 (useBeatBrightness.ts)
ExtractAvgBand ==
    /\ band.phase = "in"
    /\ band' = [band EXCEPT !.phase = "avgBand",
                            !.start = AvgBandStart(band.range, Len(band.frame)),
                            !.end = AvgBandEnd(band.range, Len(band.frame)),
                            !.norm = AvgBandNorm(band.frame, band.range)]
    /\ UNCHANGED <<analyserRef, freqArray, rafId, rafQueue, detectorState,
                   outputs, now, ticks, changes, tk, beatTicks, pulses,
                   dataArray, bassRunningAvg, otherVars>>

NextBand == ExtractInline \/ ExtractAvgBand

SpecBand == InitBand /\ [][NextBand]_vars

(***************************************************************************)
(* The body of loop once the spectrum is known to be non-empty.            *)
(***************************************************************************)
\* The baselines (smoothedBass, smoothedMid and the rolling average of
\* useBeatBrightness.ts) are kept Scale times finer than the levels, in
\* units of 1/(Unit * Scale), so that they keep decaying far below EPS as
\* the floating-point values do.
Scale == Unit

\* num * 10^k / den rounded to the nearest integer, digit by digit:
\* acc holds the digits found so far, rem the remainder (rem < den)
RECURSIVE LongDiv(_, _, _, _)
LongDiv(acc, rem, den, k) ==
    IF k = 0 THEN acc + (IF 2 * rem >= den THEN 1 ELSE 0)
    ELSE LongDiv(acc * 10 + (rem * 10) \div den, (rem * 10) % den, den,
                 k - 1)

\* smoothedBass > EPS ? bassNorm / (smoothedBass + EPS) : 1
\* (norm in 1/Unit, smoothed in 1/(Unit * Scale), the result in 1/BoostUnit:
\* norm * 10^10 / den, ten digits past norm \div den)
Rel(norm, smoothed) ==
    IF smoothed > EPS * Scale
    THEN LET den == smoothed + EPS * Scale
         IN  LongDiv(norm \div den, norm % den, den, 10)
    ELSE BoostUnit

\* smoothedBass += (bassNorm - smoothedBass) * cfg.smoothingFactor
\* (norm in 1/Unit, smoothed in 1/(Unit * Scale))
Smooth(smoothed, norm) ==
    smoothed + RDiv((norm * Scale - smoothed) * SmoothingPercent, 100)

\* (mutant) the elapsed time taken with the wrong sign
RampSwapped(ts, t) ==
    IF ts = << >> THEN 0
    ELSE Min(Unit, RDiv((ts[1] - t) * Unit, RampDurationMs))

\* startTs === null ? 0 : Math.min(1, (now - startTs) / cfg.rampDurationMs)
Ramp(ts, t) ==
    IF ts = << >> THEN 0
    ELSE Min(Unit, RDiv((t - ts[1]) * Unit, RampDurationMs))

\* (mutant) the ramp is left out of the visible level
VisualNoRamp(norm, ramp) == Min(Unit, PowGamma(Max(0, norm)))

\* Math.min(1, Math.pow(Math.max(0, norm), gamma) * ramp)
Visual(norm, ramp) == Min(Unit, Mul(PowGamma(Max(0, norm)), ramp))

\* if (beatEnv === 0) beatEnv = combined else beatEnv += (combined - beatEnv) * 0.1
\* (beatEnv and combined in 1/BoostUnit, as beatBoost)
Envelope(env, combined) ==
    IF env = 0 THEN combined
    ELSE env + RDiv((combined - env) * EnvSmoothingTenths, 10)

\* (mutant) the cooldown test left out
BeatNowNoCooldown(combined, env, sinceLastBeat) ==
    combined * 10 > env * BeatThresholdMulTenths

\* (mutant) the threshold multiplier left out
BeatNowNoThreshold(combined, env, sinceLastBeat) ==
    /\ combined > env
    /\ sinceLastBeat > BeatCooldownMs

\* (mutant) a threshold multiplier below 1 (0.9)
BeatNowLowThreshold(combined, env, sinceLastBeat) ==
    /\ combined * 10 > env * 9
    /\ sinceLastBeat > BeatCooldownMs

\* combined > beatEnv * thresholdFactor && sinceLastBeat > cfg.beatCooldownMs
BeatNow(combined, env, sinceLastBeat) ==
    /\ combined * 10 > env * BeatThresholdMulTenths
    /\ sinceLastBeat > BeatCooldownMs

\* (mutant) the impulse overwrites beatBoost
BoostOnBeatOverwrite(boost, combined, env) == combined - env

\* beatBoost.value = Math.max(beatBoost.value, combined - beatEnv)
BoostOnBeat(boost, combined, env) == Max(boost, combined - env)

\* (mutant) the decayed impulse is never snapped to 0
BoostDecayNoSnap(boost) == RDiv(boost * DecayTenths, 10)

\* beatBoost.value *= 0.9; if (beatBoost.value < 0.001) beatBoost.value = 0:
\* the product itself is compared with the threshold, then stored to the
\* nearest 1/BoostUnit
BoostDecay(boost) ==
    IF boost * DecayTenths < SnapThreshold * 10 THEN 0
    ELSE RDiv(boost * DecayTenths, 10)

Detect(frame, t) ==
    LET bassNorm == BandNorm(frame, BassRange)
        midNorm == BandNorm(frame, MidRange)
        ts == IF startTs = << >> /\ (bassNorm > SignalEps \/ midNorm > SignalEps)
              THEN <<t>> ELSE startTs
        ramp == Ramp(ts, t)
        first == smoothedBass = 0 /\ smoothedMid = 0
        sb == Smooth(IF first THEN bassNorm * Scale ELSE smoothedBass,
                     bassNorm)
        sm == Smooth(IF first THEN midNorm * Scale ELSE smoothedMid, midNorm)
        env0 == IF first THEN RDiv((bassNorm + midNorm) * Fine, 2) ELSE beatEnv
        combined == RDiv(Rel(bassNorm, sb) * BassWeightTenths
                         + Rel(midNorm, sm) * MidWeightTenths, 10)
        env == Envelope(env0, combined)
        since == t - lastBeatTime
        beat == BeatNow(combined, env, since)
    IN  [bassNorm |-> bassNorm, midNorm |-> midNorm, startTs |-> ts,
         ramp |-> ramp, smoothedBass |-> sb, smoothedMid |-> sm,
         combined |-> combined, beatEnv |-> env, since |-> since,
         beat |-> beat,
         bassLevel |-> Visual(bassNorm, ramp),
         midLevel |-> Visual(midNorm, ramp),
         beatBoost |-> IF beat THEN BoostOnBeat(beatBoost, combined, env)
                       ELSE BoostDecay(beatBoost),
         lastBeatTime |-> IF beat THEN t ELSE lastBeatTime]

(***************************************************************************)
(* loop: one animation-frame callback of the detector.                     *)
(***************************************************************************)
\* if (!analyser || !freqArray) { rafId = requestAnimationFrame(loop); return }
LoopSkip(t) ==
    /\ analyserRef = << >> \/ freqArray = << >>
    /\ tk' = [kind |-> "skip", prevBoost |-> beatBoost]
    /\ UNCHANGED <<detectorState, outputs, beatTicks>>

\* (mutant) the empty spectrum falls through to the no-beat branch
LoopEmptyDecays(t) ==
    /\ analyserRef # << >> /\ freqArray # << >>
    /\ analyserRef[1] = 0
    /\ tk' = [kind |-> "empty", prevBoost |-> beatBoost]
    /\ isBeat' = FALSE
    /\ beatBoost' = BoostDecay(beatBoost)
    /\ UNCHANGED <<detectorState, bassLevel, midLevel, beatTicks>>

\* if (n === 0) { rafId = requestAnimationFrame(loop); return }
LoopEmpty(t) ==
    /\ analyserRef # << >> /\ freqArray # << >>
    /\ analyserRef[1] = 0
    /\ tk' = [kind |-> "empty", prevBoost |-> beatBoost]
    /\ UNCHANGED <<detectorState, outputs, beatTicks>>

LoopFull(t, frame) ==
    /\ analyserRef # << >> /\ freqArray # << >>
    /\ analyserRef[1] # 0
    /\ \E d \in {Detect(frame, t)} :
           /\ smoothedBass' = d.smoothedBass
           /\ smoothedMid' = d.smoothedMid
           /\ beatEnv' = d.beatEnv
           /\ lastBeatTime' = d.lastBeatTime
           /\ startTs' = d.startTs
           /\ bassLevel' = d.bassLevel
           /\ midLevel' = d.midLevel
           /\ beatBoost' = d.beatBoost
           /\ isBeat' = d.beat
           /\ beatTicks' = IF d.beat THEN Append(beatTicks, t) ELSE beatTicks
           /\ tk' = [kind |-> "full", prevBoost |-> beatBoost,
                     prevLastBeatTime |-> lastBeatTime,
                     bassNorm |-> d.bassNorm, midNorm |-> d.midNorm,
                     ramp |-> d.ramp, combined |-> d.combined,
                     since |-> d.since]

\* One callback at time now + dt, the analyser delivering one of frames.
LoopAt(dt, frames) ==
    /\ rafQueue > 0
    /\ now' = now + dt
    /\ \/ LoopSkip(now + dt)
       \/ LoopEmpty(now + dt)
       \/ \E frame \in frames : LoopFull(now + dt, frame)
    /\ ticks' = ticks + 1
    /\ rafId' = TRUE                    \* rafId = requestAnimationFrame(loop)
    /\ UNCHANGED <<rafQueue, analyserRef, freqArray, changes, band,
                   dataArray, bassRunningAvg, otherVars>>

Loop ==
    /\ ticks < MaxTicks
    /\ \E dt \in Dts :
         LoopAt(dt, IF analyserRef = << >> THEN {} ELSE Frames(analyserRef[1]))
    /\ UNCHANGED pulses

(***************************************************************************)
(* watchEffect: runs when analyserRef.value changes.                       *)
(***************************************************************************)
\* analyserRef.value = an analyser with n bins
SetAnalyser(n) ==
    /\ changes < MaxAnalyserChanges
    /\ analyserRef # <<n>>
    /\ analyserRef' = <<n>>
    /\ freqArray' = <<n>>
    /\ rafId' = TRUE
    /\ rafQueue' = IF rafId THEN rafQueue ELSE rafQueue + 1
    /\ changes' = changes + 1
    /\ UNCHANGED <<detectorState, outputs, now, ticks, tk, beatTicks, pulses,
                   band, dataArray, bassRunningAvg, otherVars>>

\* (mutant) the analyser goes away and the loop is left running
ClearAnalyserKeepsLoop ==
    /\ changes < MaxAnalyserChanges
    /\ analyserRef # << >>
    /\ analyserRef' = << >>
    /\ freqArray' = << >>
    /\ changes' = changes + 1
    /\ UNCHANGED <<rafId, rafQueue, detectorState, outputs, now, ticks, tk,
                   beatTicks, pulses, band, dataArray, bassRunningAvg,
                   otherVars>>

\* analyserRef.value = null: stopLoop(); freqArray = null
ClearAnalyser ==
    /\ changes < MaxAnalyserChanges
    /\ analyserRef # << >>
    /\ analyserRef' = << >>
    /\ freqArray' = << >>
    /\ rafId' = FALSE
    /\ rafQueue' = IF rafId THEN rafQueue - 1 ELSE rafQueue
    /\ changes' = changes + 1
    /\ UNCHANGED <<detectorState, outputs, now, ticks, tk, beatTicks, pulses,
                   band, dataArray, bassRunningAvg, otherVars>>

Next ==
    \/ Loop
    \/ \E n \in {0, NBins} : SetAnalyser(n)
    \/ ClearAnalyser

Spec == Init /\ [][Next]_vars

(***************************************************************************)
(* Long runs at the display rate: the analyser is attached once and        *)
(* delivers a quiet frame on every tick, but for at most MaxPulses ticks   *)
(* on which it delivers a full-scale frame.                                *)
(***************************************************************************)
NominalDt == 16

Mount ==
    /\ analyserRef = << >>
    /\ changes = 0
    /\ SetAnalyser(NBins)

RunTick ==
    /\ ticks < MaxRunTicks
    /\ analyserRef # << >>
    /\ LoopAt(NominalDt, {Frame(analyserRef[1], 20, 20, FALSE)})
    /\ UNCHANGED pulses

PulseTick ==
    /\ ticks < MaxRunTicks
    /\ pulses < MaxPulses
    /\ analyserRef # << >>
    /\ LoopAt(NominalDt, {Frame(analyserRef[1], 255, 255, FALSE)})
    /\ pulses' = pulses + 1

NextRun == Mount \/ RunTick \/ PulseTick

SpecRun == Init /\ [][NextRun]_vars

(***************************************************************************)
(* A transient after steady state, at the display rate: the analyser       *)
(* delivers the quiet frame until a tick leaves the baselines and the      *)
(* envelope as they were with beatBoost at 0 (steady state); then one      *)
(* full-scale frame, then the quiet frame again.  trial keeps the tick of  *)
(* the transient, beatBoost as that tick left it, and the beats counted    *)
(* from that tick on.                                                      *)
(***************************************************************************)
\* one callback NominalDt after the latest, the analyser delivering frame
SteadyLoop(frame) ==
    /\ rafQueue > 0
    /\ analyserRef # << >>
    /\ now' = now + NominalDt
    /\ LoopFull(now + NominalDt, frame)
    /\ ticks' = ticks + 1
    /\ rafId' = TRUE
    /\ UNCHANGED <<rafQueue, analyserRef, freqArray, changes, pulses, band,
                   dataArray, bassRunningAvg, map, pageVars>>

SettleTick ==
    /\ trial.phase \in {"settling", "steady"}
    /\ ticks < MaxSettleTicks
    /\ SteadyLoop(Frame(analyserRef[1], 20, 20, FALSE))
    /\ trial' = [phase |-> IF /\ smoothedBass' = smoothedBass
                              /\ smoothedMid' = smoothedMid
                              /\ beatEnv' = beatEnv
                              /\ beatBoost' = 0 /\ ~isBeat'
                           THEN "steady" ELSE "settling"]

TransientTick ==
    /\ trial.phase = "steady"
    /\ SteadyLoop(Frame(analyserRef[1], 255, 255, FALSE))
    /\ trial' = [phase |-> "after", at |-> ticks + 1, boost |-> beatBoost',
                 beatAt |-> isBeat', beats |-> IF isBeat' THEN 1 ELSE 0]

AfterTick ==
    /\ trial.phase = "after"
    /\ ticks < trial.at + MaxAfterTicks
    /\ SteadyLoop(Frame(analyserRef[1], 20, 20, FALSE))
    /\ trial' = [trial EXCEPT !.beats = IF isBeat' THEN @ + 1 ELSE @]

NextSteady == Mount \/ SettleTick \/ TransientTick \/ AfterTick

SpecSteady == Init /\ [][NextSteady]_vars

(***************************************************************************)
(* The other useBeatBrightness in the tree                                 *)
(* (frontend/app/composables/useBeatBrightness.ts): levels smoothed        *)
(* towards a curved target, a beat when the bass target exceeds its        *)
(* rolling average, beatBoost set to 1 on a beat.  It shares the outputs,  *)
(* analyserRef, rafId and lastBeatTime with the state above.               *)
(***************************************************************************)
LevelSmoothingPercent == 15            \* levelSmoothing = 0.15
AvgSmoothPercent == 2                  \* avgSmooth = 0.02
TsDecayTenths == 9                     \* beatDecay = 0.9
TsSnapThreshold == 10000               \* 0.01 of BoostUnit

\* Math.pow(x, 1.5) for x in [0, 1]
PowBass(x) == Mul(x, Root(x))

\* Math.pow(x, 1.2) for x in [0, 1]: x times x^0.2,
\* 0.2 ~ 1/8 + 1/16 + 1/128 + 1/256 + 1/2048 + 1/4096.
PowMid(x) ==
    LET r1 == Root(x)
        r2 == Root(r1)
        r3 == Root(r2)
        r4 == Root(r3)
        r5 == Root(r4)
        r6 == Root(r5)
        r7 == Root(r6)
        r8 == Root(r7)
        r9 == Root(r8)
        r10 == Root(r9)
        r11 == Root(r10)
        r12 == Root(r11)
    IN  Mul(x, Mul(Mul(Mul(Mul(Mul(r3, r4), r7), r8), r11), r12))

\* level.value += (target - level.value) * levelSmoothing
TsSmoothLevel(level, target) ==
    level + RDiv((target - level) * LevelSmoothingPercent, 100)

\* bassTarget > threshold && now - lastBeatTime > beatCooldownMs
TsHit(bassTarget, avg, sinceLastBeat) ==
    /\ bassTarget * Scale * 10 > avg * BeatThresholdMulTenths
    /\ sinceLastBeat > BeatCooldownMs

\* beatBoost.value *= beatDecay; if (beatBoost.value < 0.01) beatBoost.value = 0:
\* the product itself is compared with the threshold
TsBoostDecay(boost) ==
    IF boost * TsDecayTenths < TsSnapThreshold * 10 THEN 0
    ELSE RDiv(boost * TsDecayTenths, 10)

TsDetect(frame, t) ==
    LET bassTarget == PowBass(AvgBandNorm(frame, BassRange))
        midTarget == PowMid(AvgBandNorm(frame, MidRange))
        avg == bassRunningAvg
               + RDiv((bassTarget * Scale - bassRunningAvg)
                      * AvgSmoothPercent, 100)
        since == t - lastBeatTime
        hit == TsHit(bassTarget, avg, since)
    IN  [bassTarget |-> bassTarget, midTarget |-> midTarget,
         bassRunningAvg |-> avg, since |-> since, hit |-> hit,
         bassLevel |-> TsSmoothLevel(bassLevel, bassTarget),
         midLevel |-> TsSmoothLevel(midLevel, midTarget),
         beatBoost |-> IF hit THEN BoostUnit ELSE TsBoostDecay(beatBoost),
         lastBeatTime |-> IF hit THEN t ELSE lastBeatTime]

\* if (!analyser) { rafId.value = null; return }
TsLoopStop(t) ==
    /\ analyserRef = << >>
    /\ rafId' = FALSE
    /\ rafQueue' = rafQueue - 1
    /\ tk' = [kind |-> "skip", prevBoost |-> beatBoost]
    /\ UNCHANGED <<outputs, lastBeatTime, bassRunningAvg, dataArray, beatTicks>>

\* dataArray reallocated; if (dataArray.length === 0) { rafId.value =
\* requestAnimationFrame(loop); return }
TsLoopEmpty(t) ==
    /\ analyserRef = <<0>>
    /\ dataArray' = <<0>>
    /\ rafId' = TRUE
    /\ rafQueue' = rafQueue
    /\ tk' = [kind |-> "empty", prevBoost |-> beatBoost]
    /\ UNCHANGED <<outputs, lastBeatTime, bassRunningAvg, beatTicks>>

TsLoopFull(t, frame) ==
    /\ analyserRef # << >> /\ analyserRef # <<0>>
    /\ dataArray' = analyserRef
    /\ rafId' = TRUE
    /\ rafQueue' = rafQueue
    /\ \E d \in {TsDetect(frame, t)} :
           /\ bassLevel' = d.bassLevel
           /\ midLevel' = d.midLevel
           /\ bassRunningAvg' = d.bassRunningAvg
           /\ lastBeatTime' = d.lastBeatTime
           /\ beatBoost' = d.beatBoost
           /\ isBeat' = d.hit
           /\ beatTicks' = IF d.hit THEN Append(beatTicks, t) ELSE beatTicks
           /\ tk' = [kind |-> "full", prevBoost |-> beatBoost,
                     prevLastBeatTime |-> lastBeatTime,
                     bassTarget |-> d.bassTarget, midTarget |-> d.midTarget,
                     since |-> d.since]

TsLoop ==
    /\ rafQueue > 0
    /\ ticks < MaxTicks
    /\ \E dt \in Dts :
         /\ now' = now + dt
         /\ \/ TsLoopStop(now + dt)
            \/ TsLoopEmpty(now + dt)
            \/ \E frame \in (IF analyserRef = << >> THEN {}
                             ELSE Frames(analyserRef[1])) :
                 TsLoopFull(now + dt, frame)
    /\ ticks' = ticks + 1
    /\ UNCHANGED <<analyserRef, freqArray, smoothedBass, smoothedMid, beatEnv,
                   startTs, changes, pulses, band, otherVars>>

\* analyserRef.value = an analyser.  While the component is mounted the
\* watch answers: watch(analyserRef): if (a) start(), start being
\* if (!analyserRef.value || rafId.value != null) return;
\* lastBeatTime = performance.now(); rafId.value = requestAnimationFrame(loop).
\* The watch was stopped with the component: after the unmount only
\* analyserRef changes.
TsSetAnalyser(n) ==
    /\ changes < MaxTsAnalyserChanges
    /\ analyserRef # <<n>>
    /\ analyserRef' = <<n>>
    /\ IF unmounted \/ rafId
       THEN UNCHANGED <<rafId, rafQueue, lastBeatTime>>
       ELSE /\ rafId' = TRUE
            /\ rafQueue' = rafQueue + 1
            /\ lastBeatTime' = now
    /\ changes' = changes + 1
    /\ UNCHANGED <<freqArray, smoothedBass, smoothedMid, beatEnv, startTs,
                   outputs, now, ticks, tk, beatTicks, pulses, band,
                   dataArray, bassRunningAvg, otherVars>>

\* analyserRef.value = null.  watch(analyserRef): else stop(), while the
\* component is mounted; after the unmount only analyserRef changes, and a
\* loop that start() requested since ends itself at its next callback.
TsClearAnalyser ==
    /\ changes < MaxTsAnalyserChanges
    /\ analyserRef # << >>
    /\ analyserRef' = << >>
    /\ IF unmounted
       THEN UNCHANGED <<rafId, rafQueue>>
       ELSE /\ rafId' = FALSE
            /\ rafQueue' = IF rafId THEN rafQueue - 1 ELSE rafQueue
    /\ changes' = changes + 1
    /\ UNCHANGED <<freqArray, detectorState, outputs, now, ticks, tk,
                   beatTicks, pulses, band, dataArray, bassRunningAvg,
                   otherVars>>

\* the returned start(), called by the owner of the detector:
\* if (!analyserRef.value || rafId.value != null) return;
\* lastBeatTime = performance.now(); rafId.value = requestAnimationFrame(loop)
TsStart ==
    /\ changes < MaxTsAnalyserChanges
    /\ changes' = changes + 1
    /\ IF analyserRef = << >> \/ rafId
       THEN UNCHANGED <<rafId, rafQueue, lastBeatTime>>
       ELSE /\ rafId' = TRUE
            /\ rafQueue' = rafQueue + 1
            /\ lastBeatTime' = now
    /\ UNCHANGED <<analyserRef, freqArray, smoothedBass, smoothedMid, beatEnv,
                   startTs, outputs, now, ticks, tk, beatTicks, pulses, band,
                   dataArray, bassRunningAvg, otherVars>>

\* the returned stop(), called by the owner, mounted or not:
\* if (rafId.value != null) { cancelAnimationFrame(rafId.value);
\* rafId.value = null }
TsStop ==
    /\ changes < MaxTsAnalyserChanges
    /\ changes' = changes + 1
    /\ rafId' = FALSE
    /\ rafQueue' = IF rafId THEN rafQueue - 1 ELSE rafQueue
    /\ UNCHANGED <<analyserRef, freqArray, detectorState, outputs, now, ticks,
                   tk, beatTicks, pulses, band, dataArray, bassRunningAvg,
                   otherVars>>

\* the component that called useBeatBrightness is unmounted:
\* onBeforeUnmount(stop) runs, and the watch of analyserRef, created in
\* setup, is stopped with the component
TsUnmount ==
    /\ ~unmounted
    /\ unmounted' = TRUE
    /\ rafId' = FALSE
    /\ rafQueue' = IF rafId THEN rafQueue - 1 ELSE rafQueue
    /\ UNCHANGED <<analyserRef, freqArray, detectorState, outputs, now, ticks,
                   changes, tk, beatTicks, pulses, band, dataArray,
                   bassRunningAvg, map, trial, canvasRef, renderRafId, bgImg,
                   noiseImg, lastDpr, lastCanvasW, lastCanvasH, ctx,
                   centerGrad, edgeGrad, grainPattern, canvasesMade, patterns,
                   backgroundUrl, urlsMade, revoked, loads, drawn, audioVars,
                   browserVars, apartVars>>

NextTs ==
    \/ TsLoop
    \/ \E n \in {0, NBins} : TsSetAnalyser(n)
    \/ TsClearAnalyser
    \/ TsStart
    \/ TsStop
    \/ TsUnmount

SpecTs == Init /\ [][NextTs]_vars

(***************************************************************************)
(* Silence: either detector with an analyser that comes and goes and       *)
(* delivers nothing but all-zero frames, at any of the tick spacings.      *)
(***************************************************************************)
SilentFrames ==
    IF analyserRef = << >> THEN {} ELSE {Frame(analyserRef[1], 0, 0, FALSE)}

\* part_001
SilentLoop ==
    /\ ticks < MaxSilentTicks
    /\ \E dt \in Dts : LoopAt(dt, SilentFrames)
    /\ UNCHANGED pulses

NextSilent ==
    \/ SilentLoop
    \/ \E n \in {0, NBins} : SetAnalyser(n)
    \/ ClearAnalyser

SpecSilent == Init /\ [][NextSilent]_vars

\* useBeatBrightness.ts
TsSilentLoop ==
    /\ rafQueue > 0
    /\ ticks < MaxSilentTicks
    /\ \E dt \in Dts :
         /\ now' = now + dt
         /\ \/ TsLoopStop(now + dt)
            \/ TsLoopEmpty(now + dt)
            \/ \E frame \in SilentFrames : TsLoopFull(now + dt, frame)
    /\ ticks' = ticks + 1
    /\ UNCHANGED <<analyserRef, freqArray, smoothedBass, smoothedMid, beatEnv,
                   startTs, changes, pulses, band, otherVars>>

NextTsSilent ==
    \/ TsSilentLoop
    \/ \E n \in {0, NBins} : TsSetAnalyser(n)
    \/ TsClearAnalyser
    \/ TsStart
    \/ TsStop
    \/ TsUnmount

SpecTsSilent == Init /\ [][NextTsSilent]_vars

(***************************************************************************)
(* The parameter mappers: useEdgeGlow, useCenterGlow and useGrainOverlay   *)
(* (the DOM mappers, weights and opacities passed as options) and the      *)
(* same three quantities as drawFrame computes them for the canvas, with   *)
(* its own literal weights.  Weights and opacities are hundredths; the     *)
(* results are in units of 1/Unit.                                         *)
(***************************************************************************)
WeightDen == 10 * 10

\* bassLevel * bassWeight + midLevel * midWeight + beatBoost * beatWeight
WeightedSum(bass, mid, boost, w) ==
    RDiv(bass * w.bass + mid * w.mid + RDiv(boost, Fine) * w.beat, WeightDen)

\* (mutant) the upper clamp is lost
EdgeIntensityNoCap(bass, mid, boost, w) ==
    Max(0, WeightedSum(bass, mid, boost, w))

\* useEdgeGlow: Math.max(0, Math.min(1, raw))
EdgeIntensity(bass, mid, boost, w) ==
    Max(0, Min(Unit, WeightedSum(bass, mid, boost, w)))

\* useCenterGlow: Math.max(0, Math.min(1, raw))
CenterIntensity(bass, mid, boost, w) ==
    Max(0, Min(Unit, WeightedSum(bass, mid, boost, w)))

\* (mutant) the base opacity is left out of the sum
GrainOpacityNoBase(bass, mid, boost, w, baseOpacity, maxOpacity) ==
    Min(maxOpacity * WeightDen, Max(0, WeightedSum(bass, mid, boost, w)))

\* useGrainOverlay: Math.min(maxOpacity, Math.max(0, baseOpacity + tonal + punch))
GrainOpacity(bass, mid, boost, w, baseOpacity, maxOpacity) ==
    Min(maxOpacity * WeightDen,
        Max(0, baseOpacity * WeightDen + WeightedSum(bass, mid, boost, w)))

\* drawFrame's literals
DrawCenterWeights == [bass |-> 15, mid |-> 90, beat |-> 70]
DrawEdgeWeights == [bass |-> 60, mid |-> 20, beat |-> 100]
DrawGrainWeights == [bass |-> 20, mid |-> 80, beat |-> 70]
DrawBaseOpacity == 5
DrawMaxOpacity == 40

\* the options VisualizerDom passes to useEdgeGlow, useCenterGlow and
\* useGrainOverlay
DomEdgeWeights == [bass |-> 60, mid |-> 20, beat |-> 100]
DomCenterWeights == [bass |-> 15, mid |-> 90, beat |-> 70]
DomGrainWeights == [bass |-> 20, mid |-> 80, beat |-> 70]
DomBaseOpacity == 5
DomMaxOpacity == 40

\* (mutant) drawFrame with useCenterGlow's default weights
DrawCenterIntensityDefaults(bass, mid, boost) ==
    Min(Unit, WeightedSum(bass, mid, boost,
                          [bass |-> 20, mid |-> 80, beat |-> 90]))

\* drawFrame: Math.min(1, mid * 0.9 + bass * 0.15 + beatBoost * 0.7)
DrawCenterIntensity(bass, mid, boost) ==
    Min(Unit, WeightedSum(bass, mid, boost, DrawCenterWeights))

\* drawFrame: Math.min(1, bass * 0.6 + mid * 0.2 + beatBoost * 1.0)
DrawEdgeIntensity(bass, mid, boost) ==
    Min(Unit, WeightedSum(bass, mid, boost, DrawEdgeWeights))

\* (mutant) the cap is lost
DrawGrainOpacityNoCap(bass, mid, boost) ==
    Max(0, DrawBaseOpacity * WeightDen
           + WeightedSum(bass, mid, boost, DrawGrainWeights))

\* drawFrame: Math.min(maxOpacity, Math.max(0, raw))
DrawGrainOpacity(bass, mid, boost) ==
    Min(DrawMaxOpacity * WeightDen,
        Max(0, DrawBaseOpacity * WeightDen
               + WeightedSum(bass, mid, boost, DrawGrainWeights)))

GrainThreshold == 100                  \* 0.01

\* drawFrame: if (bgImg && noiseImg) { ... if (grainOpacity > 0.01) { ...
GrainDrawn(bg, noise, opacity) ==
    bg # << >> /\ noise # << >> /\ opacity > GrainThreshold

\* grainPattern = ctx.createPattern(noiseImg, "repeat"): null for an image
\* that cannot be used (one of no intrinsic width or height)
CreatePattern(noise) == noise[1].usable

\* drawFrame: the layers it composites, every one of them inside if (bgImg).
\* A glow is filled if (intensity > 0): the test is made on the weighted sum
\* itself, in units of 1/(BoostUnit * WeightDen), not on its rounding to
\* 1/Unit.  The grain is filled only with a pattern:
\* if (grainPattern) { fillRect }
Layers(bg, noise, bass, mid, boost) ==
    LET sum(w) == (bass * w.bass + mid * w.mid) * Fine + boost * w.beat
        grain == DrawGrainOpacity(bass, mid, boost)
    IN  IF bg = << >> THEN {}
        ELSE {"background", "desaturation"}
             \cup (IF sum(DrawCenterWeights) > 0 THEN {"center"} ELSE {})
             \cup (IF sum(DrawEdgeWeights) > 0 THEN {"edge"} ELSE {})
             \cup (IF GrainDrawn(bg, noise, grain) /\ CreatePattern(noise)
                   THEN {"grain"} ELSE {})

\* Inputs: levels in [0, 1], one of them a single unit, beatBoost from 0 up
\* to MaxBoost (the detector lets it exceed 1), one value under half a unit
\* of 1/Unit, weight sets that are the defaults, the ones the
\* components pass, one summing to far more than 1 and a negative one, and
\* base/max opacities that are the defaults, the ones passed, and a base
\* above the cap; for drawFrame, a background image that is loaded or not
\* and a noise texture that is not loaded, loaded and usable for a pattern,
\* or loaded and unusable.
LevelVals == {0, 1, Unit \div 2, Unit}
BoostVals == {0, 49, BoostUnit \div 2, BoostUnit, MaxBoost * BoostUnit}
WeightSets ==
    { [bass |-> 60, mid |-> 20, beat |-> 100],
      [bass |-> 20, mid |-> 80, beat |-> 90],
      [bass |-> 15, mid |-> 90, beat |-> 70],
      [bass |-> 20, mid |-> 80, beat |-> 80],
      [bass |-> 150, mid |-> 150, beat |-> 200],
      [bass |-> 0 - 50, mid |-> 0 - 50, beat |-> 0 - 50] }
Opacities == { <<8, 45>>, <<5, 40>>, <<50, 45>> }


MapInputs ==
    { [phase |-> "in", bass |-> b, mid |-> m, boost |-> t, w |-> w,
       baseOpacity |-> o[1], maxOpacity |-> o[2], bg |-> bg, noise |-> noise,
       edge |-> 0, center |-> 0, grain |-> 0, layers |-> {}] :
        b \in LevelVals, m \in {0, Unit}, t \in BoostVals,
        w \in WeightSets, o \in Opacities,
        bg \in {<< >>, <<NoiseUrl>>},
        noise \in {<< >>} \cup {<<[url |-> NoiseUrl, usable |-> u]>> :
                                  u \in BOOLEAN} }

InitMap ==
    /\ InitDetector /\ band = NoBand /\ map \in MapInputs
    /\ trial = NoTrial
    /\ InitPageVars /\ devicePixelRatio = DprDen

UseEdgeGlow ==
    /\ map.phase = "in"
    /\ map' = [map EXCEPT !.phase = "edge",
                  !.edge = EdgeIntensity(map.bass, map.mid, map.boost, map.w)]
    /\ UNCHANGED <<analyserRef, freqArray, rafId, rafQueue, detectorState,
                   outputs, now, ticks, changes, tk, beatTicks, pulses,
                   dataArray, bassRunningAvg, band, trial, pageVars>>

UseCenterGlow ==
    /\ map.phase = "in"
    /\ map' = [map EXCEPT !.phase = "center",
                  !.center = CenterIntensity(map.bass, map.mid, map.boost, map.w)]
    /\ UNCHANGED <<analyserRef, freqArray, rafId, rafQueue, detectorState,
                   outputs, now, ticks, changes, tk, beatTicks, pulses,
                   dataArray, bassRunningAvg, band, trial, pageVars>>

UseGrainOverlay ==
    /\ map.phase = "in"
    /\ map' = [map EXCEPT !.phase = "grain",
                  !.grain = GrainOpacity(map.bass, map.mid, map.boost, map.w,
                                         map.baseOpacity, map.maxOpacity)]
    /\ UNCHANGED <<analyserRef, freqArray, rafId, rafQueue, detectorState,
                   outputs, now, ticks, changes, tk, beatTicks, pulses,
                   dataArray, bassRunningAvg, band, trial, pageVars>>

\* the three quantities as drawFrame computes them, and the layers it
\* composites
DrawFrameMap ==
    /\ map.phase = "in"
    /\ map' = [map EXCEPT !.phase = "canvas",
                  !.baseOpacity = DrawBaseOpacity,
                  !.maxOpacity = DrawMaxOpacity,
                  !.w = DrawGrainWeights,
                  !.center = DrawCenterIntensity(map.bass, map.mid, map.boost),
                  !.edge = DrawEdgeIntensity(map.bass, map.mid, map.boost),
                  !.grain = DrawGrainOpacity(map.bass, map.mid, map.boost),
                  !.layers =
                      Layers(map.bg, map.noise, map.bass, map.mid,
                             map.boost)]
    /\ UNCHANGED <<analyserRef, freqArray, rafId, rafQueue, detectorState,
                   outputs, now, ticks, changes, tk, beatTicks, pulses,
                   dataArray, bassRunningAvg, band, trial, pageVars>>

NextMap == UseEdgeGlow \/ UseCenterGlow \/ UseGrainOverlay \/ DrawFrameMap

SpecMap == InitMap /\ [][NextMap]_vars

(***************************************************************************)
(* The page: useCanvasVisualizer (the renderer), useAudioVisualizer (the   *)
(* audio frame loop), useBeatBrightness (part_001) and useTempUrl, as the  *)
(* index page wires them, under the browser's animation-frame scheduler:   *)
(* the callbacks requested before a frame begins run in that frame, in     *)
(* request order, and a callback requested while a frame runs waits for    *)
(* the next one.  User and browser events happen between frames.           *)
(***************************************************************************)
CanvasWidth == 1920
CanvasHeight == 1080
DprVals == {DprDen, 2 * DprDen, 667}   \* 1, 2 and 0.667 (zoomed out)

\* A canvas element as it is mounted: of the browser's default size, or
\* with the 16:9 dimensions bound to its width and height attributes.
CanvasSizes == {<<300, 150>>, <<CanvasWidth, CanvasHeight>>}

\* has2d: whether canvas.getContext("2d") hands back a context (it is null
\* for an element that cannot give one)
NewCanvas(id, size, has2d) ==
    [id |-> id, width |-> size[1], height |-> size[2], fresh |-> TRUE,
     has2d |-> has2d]

\* the elements the next mount may deliver
NewCanvases ==
    {NewCanvas(canvasesMade + 1, size, TRUE) : size \in CanvasSizes}
        \cup {NewCanvas(canvasesMade + 1, <<300, 150>>, FALSE)}

detectorVars == <<analyserRef, freqArray, rafId, rafQueue, detectorState,
                  outputs, now, ticks, changes, tk, beatTicks, pulses,
                  dataArray, bassRunningAvg>>
pureVars == <<band, map, trial, apartVars>>
cacheVars == <<lastDpr, lastCanvasW, lastCanvasH, ctx, centerGrad, edgeGrad,
               grainPattern>>

\* cancelAnimationFrame(rafId): the handle names the loop's latest request,
\* the last one of callback cb in q; only that one is cancelled
Cancel(q, cb) ==
    LET at == {i \in 1..Len(q) : q[i] = cb}
    IN  IF at = {} THEN q
        ELSE LET last == CHOOSE i \in at : \A j \in at : j <= i
             IN  SubSeq(q, 1, last - 1) \o SubSeq(q, last + 1, Len(q))

\* startLoop: if (rafId !== null) return; rafId = requestAnimationFrame(loop)
StartLoop(q) == IF renderRafId THEN q ELSE Append(q, "render")

\* (mutant) stopLoop forgets the handle without cancelling the request
StopLoopNoCancel(q) == q

\* stopLoop: if (rafId !== null) { cancelAnimationFrame(rafId); rafId = null }
StopLoop(q) == IF renderRafId THEN Cancel(q, "render") ELSE q

\* useBeatBrightness.stopLoop
StopDetectorLoop(q) == IF rafId THEN Cancel(q, "detector") ELSE q

\* startRAF: if (!analyser.value || rafId !== null || !freq.value) return
StartRAF(q) ==
    IF analyserRef = << >> \/ audioRafId \/ freq = << >> THEN q
    ELSE Append(q, "audio")

\* stopRAF
StopRAF(q) == IF audioRafId THEN Cancel(q, "audio") ELSE q

\* window.devicePixelRatio || 1
Dpr(d) == IF d = 0 THEN DprDen ELSE d

\* canvas.width = targetW * dpr: the attribute is an unsigned long, the
\* fraction is dropped
ToUnsignedLong(scaled) == scaled \div DprDen

\* canvas.width !== targetW * dpr || canvas.height !== targetH * dpr ||
\* dpr !== lastDpr
NeedResize(canvas, d) ==
    \/ canvas.width * DprDen # CanvasWidth * d
    \/ canvas.height * DprDen # CanvasHeight * d
    \/ d # lastDpr

\* setupCanvasIfNeeded: grainPattern = null at the end of a setup that got
\* a context
CachedPattern(built, pattern) == IF built THEN << >> ELSE pattern

\* canvas.getContext("2d"): the one 2D context of the element, the same
\* object at every call, or null
GetContext(canvas) ==
    IF canvas.has2d THEN <<[canvas |-> canvas.id]>> ELSE << >>

\* drawFrame, setupCanvasIfNeeded included.  A gradient is identified by the
\* draw that built it and the canvas whose context built it, a pattern by
\* the image and the context it was created from.
DrawFrame ==
    IF canvasRef = << >>
    THEN /\ drawn' = [seq |-> drawn.seq + 1, kind |-> "nocanvas"]
         /\ UNCHANGED <<canvasRef, cacheVars, patterns>>
    ELSE LET canvas == canvasRef[1]
             dpr == Dpr(devicePixelRatio)
             setup == NeedResize(canvas, dpr) \/ ctx = << >>
             context == IF setup THEN GetContext(canvas) ELSE ctx
             \* the setup went past if (!ctx) return
             built == setup /\ context # << >>
             pattern == CachedPattern(built, grainPattern)
             center == DrawCenterIntensity(bassLevel, midLevel, beatBoost)
             edge == DrawEdgeIntensity(bassLevel, midLevel, beatBoost)
             grain == DrawGrainOpacity(bassLevel, midLevel, beatBoost)
             made == /\ context # << >>
                     /\ GrainDrawn(bgImg, noiseImg, grain)
                     /\ pattern = << >>
                     /\ CreatePattern(noiseImg)
         IN  /\ canvasRef' =
                  IF setup
                  THEN <<[id |-> canvas.id,
                          width |-> ToUnsignedLong(CanvasWidth * dpr),
                          height |-> ToUnsignedLong(CanvasHeight * dpr),
                          fresh |-> FALSE, has2d |-> canvas.has2d]>>
                  ELSE canvasRef
             /\ lastDpr' = IF setup THEN dpr ELSE lastDpr
             /\ lastCanvasW' = IF setup THEN CanvasWidth ELSE lastCanvasW
             /\ lastCanvasH' = IF setup THEN CanvasHeight ELSE lastCanvasH
             /\ ctx' = context
             /\ centerGrad' = IF built THEN <<drawn.seq + 1, canvas.id>>
                              ELSE centerGrad
             /\ edgeGrad' = IF built THEN <<drawn.seq + 1, canvas.id>>
                            ELSE edgeGrad
             /\ grainPattern' =
                  IF made THEN <<[img |-> noiseImg[1], ctx |-> context[1]]>>
                  ELSE pattern
             /\ patterns' =
                  IF made
                  THEN Append(patterns,
                              [img |-> noiseImg[1], ctx |-> context[1]])
                  ELSE patterns
             /\ drawn' =
                  IF context = << >>
                  THEN \* drawFrame: if (!ctx) return
                       [seq |-> drawn.seq + 1, kind |-> "nocontext"]
                  ELSE   [seq |-> drawn.seq + 1, kind |-> "drawn",
                          frameNo |-> frameNo, rebuilt |-> setup,
                          first |-> canvas.fresh,
                          dprChanged |-> dpr # lastDpr,
                          canvas |-> canvas.id, ctx |-> context[1],
                          bg |-> bgImg, noise |-> noiseImg, ticks |-> ticks,
                          bass |-> bassLevel, mid |-> midLevel,
                          boost |-> beatBoost, beat |-> isBeat,
                          center |-> center, edge |-> edge, grain |-> grain,
                          layers |-> Layers(bgImg, noiseImg, bassLevel,
                                            midLevel, beatBoost)]

\* The browser begins a display frame: it will run the callbacks requested
\* so far.
BeginFrame ==
    /\ running = << >>
    /\ pending # << >>
    /\ frameNo < MaxFrames
    /\ running' = pending
    /\ pending' = << >>
    /\ frameNo' = frameNo + 1
    /\ pulls' = 0
    /\ UNCHANGED <<detectorVars, pureVars, rendererVars, audioVars,
                   devicePixelRatio, events>>

\* the renderer's loop: drawFrame(); rafId = requestAnimationFrame(loop)
RunRender ==
    /\ running # << >>
    /\ Head(running) = "render"
    /\ DrawFrame
    /\ renderRafId' = TRUE
    /\ running' = Tail(running)
    /\ pending' = Append(pending, "render")
    /\ UNCHANGED <<detectorVars, pureVars, bgImg, noiseImg, canvasesMade,
                   backgroundUrl, urlsMade, revoked, loads, unmounted, audioVars,
                   devicePixelRatio, frameNo, pulls, events>>

\* The spectrum a detector tick of the page reads: with signal in both
\* bands.
PageFrames(n) == {Frame(n, 255, 20, FALSE)}

\* useBeatBrightness's loop (part_001), at the frame's timestamp
RunDetector ==
    /\ running # << >>
    /\ Head(running) = "detector"
    /\ now' = frameNo * NominalDt
    /\ \/ LoopSkip(frameNo * NominalDt) /\ pulls' = pulls
       \/ LoopEmpty(frameNo * NominalDt) /\ pulls' = pulls + 1
       \/ /\ \E f \in (IF analyserRef = << >> THEN {}
                       ELSE PageFrames(analyserRef[1])) :
                 LoopFull(frameNo * NominalDt, f)
          /\ pulls' = pulls + 1
    /\ ticks' = ticks + 1
    /\ rafId' = TRUE
    /\ running' = Tail(running)
    /\ pending' = Append(pending, "detector")
    /\ UNCHANGED <<rafQueue, analyserRef, freqArray, changes, pulses,
                   dataArray, bassRunningAvg, pureVars, rendererVars,
                   audioVars, devicePixelRatio, frameNo, events>>

\* useAudioVisualizer's loop: a.getByteFrequencyData(f); the frame handlers
\* (the page's computes a local bass average and keeps nothing);
\* rafId = requestAnimationFrame(loop)
RunAudio ==
    /\ running # << >>
    /\ Head(running) = "audio"
    /\ pulls' = pulls + 1
    /\ audioRafId' = TRUE
    /\ running' = Tail(running)
    /\ pending' = Append(pending, "audio")
    /\ UNCHANGED <<detectorVars, pureVars, rendererVars, freq, isPlaying,
                   devicePixelRatio, frameNo, events>>

\* An event is handled between frames, while the page is mounted.
EventAllowed ==
    /\ running = << >>
    /\ ~unmounted
    /\ events < MaxEvents

\* setRecordCanvas(el): recordCanvas.value = el, then watch(canvasRef):
\* if (c) startLoop() else stopLoop()
SetRecordCanvas(c) ==
    /\ EventAllowed
    /\ canvasRef # c
    /\ canvasRef' = c
    /\ canvasesMade' = IF c # << >> THEN canvasesMade + 1 ELSE canvasesMade
    /\ renderRafId' = (c # << >>)
    /\ pending' = IF c # << >> THEN StartLoop(pending) ELSE StopLoop(pending)
    /\ events' = events + 1
    /\ UNCHANGED <<detectorVars, pureVars, bgImg, noiseImg, cacheVars,
                   patterns, backgroundUrl, urlsMade, revoked, loads, unmounted, drawn,
                   audioVars, devicePixelRatio, running, frameNo, pulls>>

\* (mutant) clear forgets URL.revokeObjectURL
ClearRevokesNothing(url, set) == set

\* clear: if (url.value) { URL.revokeObjectURL(url.value); ... }
ClearRevokes(url, set) == IF url # << >> THEN set \cup {url[1]} ELSE set

\* setBackground(file): clear(); url.value = URL.createObjectURL(file), then
\* watch(backgroundUrl): loadImage(src)
SetFromFile ==
    /\ EventAllowed
    /\ urlsMade < MaxUrls
    /\ urlsMade' = urlsMade + 1
    /\ revoked' = ClearRevokes(backgroundUrl, revoked)
    /\ backgroundUrl' = <<urlsMade + 1>>
    /\ loads' = loads \cup {[kind |-> "bg", url |-> urlsMade + 1]}
    /\ events' = events + 1
    /\ UNCHANGED <<detectorVars, pureVars, canvasRef, renderRafId, bgImg,
                   noiseImg, cacheVars, canvasesMade, patterns, unmounted,
                   drawn, audioVars,
                   devicePixelRatio, pending, running, frameNo, pulls>>

\* clear(): the URL is revoked and url.value = null, then
\* watch(backgroundUrl): if (!src) { bgImg = null; return }
Clear ==
    /\ EventAllowed
    /\ revoked' = ClearRevokes(backgroundUrl, revoked)
    /\ backgroundUrl' = << >>
    /\ bgImg' = IF backgroundUrl # << >> THEN << >> ELSE bgImg
    /\ events' = events + 1
    /\ UNCHANGED <<detectorVars, pureVars, canvasRef, renderRafId, noiseImg,
                   cacheVars, canvasesMade, patterns, urlsMade, loads,
                   unmounted, drawn, audioVars, devicePixelRatio, pending,
                   running, frameNo, pulls>>

\* img.onload: .then((img) => { bgImg = img }) or { noiseImg = img }; the
\* noise image that arrives is one createPattern can use, or is not
LoadResolve(l) ==
    /\ running = << >>
    /\ l \in loads
    /\ loads' = loads \ {l}
    /\ bgImg' = IF l.kind = "bg" THEN <<l.url>> ELSE bgImg
    /\ \E u \in (IF l.kind = "noise" THEN BOOLEAN ELSE {TRUE}) :
           noiseImg' = IF l.kind = "noise"
                       THEN <<[url |-> l.url, usable |-> u]>> ELSE noiseImg
    /\ UNCHANGED <<detectorVars, pureVars, canvasRef, renderRafId, cacheVars,
                   canvasesMade, patterns, backgroundUrl, urlsMade, revoked, unmounted,
                   drawn, audioVars, browserVars>>

\* img.onerror: .catch(() => { bgImg = null }) or { noiseImg = null }
LoadReject(l) ==
    /\ running = << >>
    /\ l \in loads
    /\ loads' = loads \ {l}
    /\ bgImg' = IF l.kind = "bg" THEN << >> ELSE bgImg
    /\ noiseImg' = IF l.kind = "noise" THEN << >> ELSE noiseImg
    /\ UNCHANGED <<detectorVars, pureVars, canvasRef, renderRafId, cacheVars,
                   canvasesMade, patterns, backgroundUrl, urlsMade, revoked, unmounted,
                   drawn, audioVars, browserVars>>

\* the window moves to another screen or the user zooms
DprChange(d) ==
    /\ EventAllowed
    /\ d # devicePixelRatio
    /\ devicePixelRatio' = d
    /\ events' = events + 1
    /\ UNCHANGED <<detectorVars, pureVars, rendererVars, audioVars, pending,
                   running, frameNo, pulls>>

(***************************************************************************)
(* useAudioVisualizer on its own: loadFile, play, pause, stop, the 'ended' *)
(* events of its buffer source nodes and its frame loop, under the         *)
(* animation-frame scheduler above.  Times are whole steps of the audio    *)
(* clock.  A node records when its buffer runs out (endsAt), whether       *)
(* stop() was called on it (stopped) and whether its 'ended' event has     *)
(* been dispatched (fired).                                                *)
(***************************************************************************)
Durations == {1, 2}                    \* buffer.duration of the decoded files
CtxStates == {"suspended", "running"}  \* of a new AudioContext
\* what the onFrame handler calls: nothing, pause(), stop(), or pause() and
\* then play()
Handlers == {"none", "pause", "stop", "replay"}

\* what useAudioVisualizer leaves alone
besidePlayer == <<detectorVars, band, map, trial, rendererVars, recorderVars>>

\* a control is called between frames, while the context is open
CallAllowed ==
    /\ running = << >>
    /\ audioCtx # "closed"
    /\ calls < MaxCalls

\* ensureCtx: if (!audioCtx.value) { audioCtx.value = new AudioContext() ... }
EnsureCtx(state) == IF audioCtx = "none" THEN state ELSE audioCtx

\* ensureCtx: freq.value = new Uint8Array(analyser.value.frequencyBinCount)
EnsureFreq == IF audioCtx = "none" THEN <<NBins>> ELSE freq

\* source.value.stop(), if there is a source
StopSource ==
    IF source = << >> THEN nodes
    ELSE [nodes EXCEPT ![source[1]].stopped = TRUE]

\* startRAF, the analyser being the context's:
\* if (!analyser.value || rafId !== null || !freq.value) return
PlayerStartRAF(q, f) ==
    IF audioRafId \/ f = << >> THEN q ELSE Append(q, "audio")

\* loadFile up to its first await: ensureCtx(); await file.arrayBuffer()
LoadFileBegin(state) ==
    /\ lastCall' = "loadFile"
    /\ CallAllowed
    /\ audioCtx' = EnsureCtx(state)
    /\ freq' = EnsureFreq
    /\ decodes' = decodes + 1
    /\ calls' = calls + 1
    /\ UNCHANGED <<besidePlayer, isPlaying,
                   audioRafId, buffer, source, nodes, startTime, pauseOffset,
                   currentTime, resumes, browserVars>>

\* loadFile after decodeAudioData: buffer.value = ...; hasBuffer.value = true;
\* pauseOffset.value = 0
LoadFileDecoded(d) ==
    /\ lastCall' = "decoded"
    /\ running = << >>
    /\ decodes > 0
    /\ decodes' = decodes - 1
    /\ buffer' = <<d>>
    /\ pauseOffset' = 0
    /\ UNCHANGED <<besidePlayer, audioVars,
                   audioCtx, source, nodes, startTime, currentTime, resumes,
                   calls, browserVars>>

\* decodeAudioData rejects: loadFile throws before it assigns anything
LoadFileRejected ==
    /\ lastCall' = lastCall
    /\ running = << >>
    /\ decodes > 0
    /\ decodes' = decodes - 1
    /\ UNCHANGED <<besidePlayer, audioVars,
                   audioCtx, buffer, source, nodes, startTime, pauseOffset,
                   currentTime, resumes, calls, browserVars>>

\* play from makeSource on: the previous source is stopped, a new one is
\* created and started at pauseOffset; isPlaying.value = true; startRAF();
\* source.value.onended = ...
PlayBody(f) ==
    /\ nodes' = Append(StopSource,
                       [endsAt |-> currentTime + Max(0, buffer[1] - pauseOffset),
                        stopped |-> FALSE, fired |-> FALSE])
    /\ source' = <<Len(nodes) + 1>>
    /\ startTime' = currentTime - pauseOffset
    /\ isPlaying' = TRUE
    /\ pending' = PlayerStartRAF(pending, f)
    /\ audioRafId' = (audioRafId \/ f # << >>)
    /\ UNCHANGED <<buffer, pauseOffset>>

\* play(): ensureCtx(); returns if there is no buffer; awaits
\* audioCtx.resume() if the context is suspended
PlayerPlay(state) ==
    /\ lastCall' = "play"
    /\ CallAllowed
    /\ calls' = calls + 1
    /\ audioCtx' = EnsureCtx(state)
    /\ freq' = EnsureFreq
    /\ IF buffer = << >>
       THEN UNCHANGED <<isPlaying, audioRafId, buffer, source, nodes,
                        startTime, pauseOffset, resumes, pending>>
       ELSE IF audioCtx = "suspended"
       THEN /\ resumes' = resumes + 1
            /\ UNCHANGED <<isPlaying, audioRafId, buffer, source, nodes,
                           startTime, pauseOffset, pending>>
       ELSE PlayBody(freq) /\ UNCHANGED resumes
    /\ UNCHANGED <<besidePlayer, currentTime,
                   decodes, devicePixelRatio, running, frameNo, pulls, events>>

\* audioCtx.resume() settles: a play() that awaited it goes on (a closed
\* context rejects and that play() ends there)
PlayResumed ==
    /\ lastCall' = "play"
    /\ running = << >>
    /\ resumes > 0
    /\ resumes' = resumes - 1
    /\ IF audioCtx = "closed"
       THEN UNCHANGED <<audioCtx, isPlaying, audioRafId, buffer, source,
                        nodes, startTime, pauseOffset, pending>>
       ELSE audioCtx' = "running" /\ PlayBody(freq)
    /\ UNCHANGED <<besidePlayer, freq,
                   currentTime, decodes, calls, devicePixelRatio, running,
                   frameNo, pulls, events>>
\* pause(): returns if there is no context or no source; pauseOffset.value =
\* Math.min(elapsed, buffer.value ? buffer.value.duration : elapsed)
PausedAt ==
    LET elapsed == currentTime - startTime
    IN  Min(elapsed, IF buffer # << >> THEN buffer[1] ELSE elapsed)

\* (mutant) pause without the cap at the buffer's duration
PauseOffsetNoCap(paused, offset) ==
    IF paused THEN currentTime - startTime ELSE offset

\* the offset pause() leaves: pauseOffset.value = Math.min(...) if it got
\* past its guard
PauseOffset(paused, offset) == IF paused THEN PausedAt ELSE offset

PlayerPause ==
    /\ lastCall' = "pause"
    /\ CallAllowed
    /\ calls' = calls + 1
    /\ LET paused == audioCtx # "none" /\ source # << >>
       IN  /\ pauseOffset' = PauseOffset(paused, pauseOffset)
           /\ nodes' = IF paused THEN StopSource ELSE nodes
           /\ isPlaying' = (isPlaying /\ ~paused)
           /\ pending' = IF paused THEN StopRAF(pending) ELSE pending
           /\ audioRafId' = (audioRafId /\ ~paused)
    /\ UNCHANGED <<besidePlayer, freq, audioCtx, buffer, source, startTime,
                   currentTime, decodes, resumes, devicePixelRatio, running,
                   frameNo, pulls, events>>

\* stop(): returns if there is no context; stops the source if any;
\* isPlaying.value = false; pauseOffset.value = 0; stopRAF()
PlayerStop ==
    /\ lastCall' = "stop"
    /\ CallAllowed
    /\ calls' = calls + 1
    /\ LET stopped == audioCtx # "none"
       IN  /\ pauseOffset' = IF stopped THEN 0 ELSE pauseOffset
           /\ nodes' = IF stopped THEN StopSource ELSE nodes
           /\ isPlaying' = (isPlaying /\ ~stopped)
           /\ pending' = IF stopped THEN StopRAF(pending) ELSE pending
           /\ audioRafId' = (audioRafId /\ ~stopped)
    /\ UNCHANGED <<besidePlayer, freq, audioCtx, buffer, source, startTime,
                   currentTime, decodes, resumes, devicePixelRatio, running,
                   frameNo, pulls, events>>

\* the 'ended' event of node i is due: stop() was called on it or its
\* buffer has run out
EndedDue(i) ==
    /\ ~nodes[i].fired
    /\ nodes[i].stopped \/ currentTime >= nodes[i].endsAt

\* onended of node i goes past its guard: if (!isPlaying.value) return
OnEnded(i) == isPlaying

\* The 'ended' event of node i is dispatched:
\* isPlaying.value = false; pauseOffset.value = 0; stopRAF()
Ended(i) ==
    /\ lastCall' = "ended"
    /\ running = << >>
    /\ i \in 1..Len(nodes)
    /\ EndedDue(i)
    /\ nodes' = [nodes EXCEPT ![i].fired = TRUE]
    /\ isPlaying' = (isPlaying /\ ~OnEnded(i))
    /\ pauseOffset' = IF OnEnded(i) THEN 0 ELSE pauseOffset
    /\ pending' = IF OnEnded(i) THEN StopRAF(pending) ELSE pending
    /\ audioRafId' = (audioRafId /\ ~OnEnded(i))
    /\ UNCHANGED <<besidePlayer, freq, audioCtx, buffer, source, startTime,
                   currentTime, decodes, resumes, calls, devicePixelRatio,
                   running, frameNo, pulls, events>>

\* the audio clock of a running context advances
ClockAdvance ==
    /\ lastCall' = lastCall
    /\ running = << >>
    /\ audioCtx = "running"
    /\ currentTime < MaxClock
    /\ currentTime' = currentTime + 1
    /\ UNCHANGED <<besidePlayer, audioVars, audioCtx, buffer, source, nodes,
                   startTime, pauseOffset, decodes, resumes, calls,
                   browserVars>>

\* useAudioVisualizer's loop with a frame handler: a.getByteFrequencyData(f);
\* the handlers; rafId = requestAnimationFrame(loop).  The stopRAF of a
\* handler's pause() or stop() cancels the request rafId names, the loop's
\* latest: one requested earlier in this frame, else one still to run in
\* this frame, else the one being run (which changes nothing), and sets
\* rafId = null.  The play() of a handler goes on as play() does: with a
\* buffer and a context that is not suspended it makes and starts a source
\* and calls startRAF, which requests a frame if rafId is null.  A handler's
\* controls count as calls.
AudioLoop(h) ==
    /\ running # << >>
    /\ Head(running) = "audio"
    /\ pulls' = pulls + 1
    /\ (h # "none") => calls < MaxCalls
    /\ calls' = IF h = "none" THEN calls ELSE calls + 1
    /\ LET paused == h \in {"pause", "replay"} /\ audioCtx # "none"
                      /\ source # << >>
           stopped == h = "stop" /\ audioCtx # "none"
           cancels == (paused \/ stopped) /\ audioRafId
           inPending == \E i \in 1..Len(pending) : pending[i] = "audio"
           kept == IF cancels /\ inPending THEN Cancel(pending, "audio")
                   ELSE pending
           offset == IF stopped THEN 0 ELSE PauseOffset(paused, pauseOffset)
           halted == IF paused \/ stopped THEN StopSource ELSE nodes
           replay == h = "replay" /\ buffer # << >>
           starts == replay /\ audioCtx # "suspended"
           requests == starts /\ (paused \/ ~audioRafId)
       IN  /\ running' = IF cancels /\ ~inPending
                         THEN Cancel(Tail(running), "audio")
                         ELSE Tail(running)
           /\ pauseOffset' = offset
           /\ nodes' = IF starts
                       THEN Append(halted,
                                   [endsAt |-> currentTime
                                                 + Max(0, buffer[1] - offset),
                                    stopped |-> FALSE, fired |-> FALSE])
                       ELSE halted
           /\ source' = IF starts THEN <<Len(nodes) + 1>> ELSE source
           /\ startTime' = IF starts THEN currentTime - offset ELSE startTime
           /\ isPlaying' = (starts \/ (isPlaying /\ ~paused /\ ~stopped))
           /\ resumes' = IF replay /\ ~starts THEN resumes + 1 ELSE resumes
           /\ pending' = Append(IF requests THEN Append(kept, "audio")
                                ELSE kept, "audio")
           /\ audioRafId' = TRUE
           /\ lastCall' = IF h = "none" THEN lastCall
                          ELSE IF h = "replay" THEN "play" ELSE h
    /\ UNCHANGED <<besidePlayer, freq, audioCtx, buffer, currentTime,
                   decodes, devicePixelRatio, frameNo, events>>

\* onBeforeUnmount: stop(); audioCtx.value.close()
PlayerUnmount ==
    /\ lastCall' = "unmount"
    /\ running = << >>
    /\ audioCtx \notin {"none", "closed"}
    /\ audioCtx' = "closed"
    /\ pauseOffset' = 0
    /\ nodes' = StopSource
    /\ isPlaying' = FALSE
    /\ pending' = StopRAF(pending)
    /\ audioRafId' = FALSE
    /\ UNCHANGED <<besidePlayer, freq, buffer, source, startTime,
                   currentTime, decodes, resumes, calls, devicePixelRatio,
                   running, frameNo, pulls, events>>

NextPlayer ==
    \/ \E state \in (IF audioCtx = "none" THEN CtxStates ELSE {audioCtx}) :
          LoadFileBegin(state)
    \/ \E d \in Durations : LoadFileDecoded(d)
    \/ LoadFileRejected
    \/ \E state \in (IF audioCtx = "none" THEN CtxStates ELSE {audioCtx}) :
          PlayerPlay(state)
    \/ PlayResumed
    \/ PlayerPause
    \/ PlayerStop
    \/ \E i \in 1..Len(nodes) : Ended(i)
    \/ ClockAdvance
    \/ BeginFrame
    \/ \E h \in Handlers : AudioLoop(h)
    \/ PlayerUnmount

SpecPlayer == Init /\ [][NextPlayer]_vars

(***************************************************************************)
(* The page's use of the player: an audio file is chosen (loadFile), and   *)
(* the play button and the space bar call handlePlay, which toggles        *)
(* between play() and pause() once a file is decoded and a background is   *)
(* chosen.                                                                 *)
(***************************************************************************)
\* loadFile(file) up to its first await: ensureCtx() creates the context, the
\* analyser and freq; the detector's watchEffect allocates freqArray and
\* requests its first frame; then await file.arrayBuffer()
LoadFile(state) ==
    /\ EventAllowed
    /\ lastCall' = "loadFile"
    /\ audioCtx' = EnsureCtx(state)
    /\ freq' = EnsureFreq
    /\ decodes' = decodes + 1
    /\ events' = events + 1
    /\ IF audioCtx = "none"
       THEN /\ analyserRef' = <<NBins>>
            /\ freqArray' = <<NBins>>
            /\ rafId' = TRUE
            /\ rafQueue' = IF rafId THEN rafQueue ELSE rafQueue + 1
            /\ pending' = IF rafId THEN pending
                          ELSE Append(pending, "detector")
       ELSE UNCHANGED <<analyserRef, freqArray, rafId, rafQueue, pending>>
    /\ UNCHANGED <<detectorState, outputs, now, ticks, changes, tk, beatTicks,
                   pulses, dataArray, bassRunningAvg, band, map, trial,
                   rendererVars, recorderVars, isPlaying, audioRafId, buffer,
                   source, nodes, startTime, pauseOffset, currentTime,
                   resumes, calls, devicePixelRatio, running, frameNo, pulls>>

\* handlePlay: returns (with a notification, nothing else) while no audio
\* is decoded or no background is chosen; otherwise togglePlay():
\* if (isPlaying.value) pause() else void play()
HandlePlay ==
    /\ EventAllowed
    /\ buffer # << >> /\ backgroundUrl # << >>
    /\ events' = events + 1
    /\ IF isPlaying
       THEN LET paused == source # << >>
            IN  /\ lastCall' = "pause"
                /\ pauseOffset' = PauseOffset(paused, pauseOffset)
                /\ nodes' = IF paused THEN StopSource ELSE nodes
                /\ isPlaying' = (isPlaying /\ ~paused)
                /\ pending' = IF paused THEN StopRAF(pending) ELSE pending
                /\ audioRafId' = (audioRafId /\ ~paused)
                /\ UNCHANGED <<source, startTime, resumes, buffer>>
       ELSE IF audioCtx = "suspended"
       THEN /\ lastCall' = "play"
            /\ resumes' = resumes + 1
            /\ UNCHANGED <<isPlaying, audioRafId, source, nodes, startTime,
                           pauseOffset, pending, buffer>>
       ELSE lastCall' = "play" /\ PlayBody(freq) /\ UNCHANGED resumes
    /\ UNCHANGED <<besidePlayer, freq, audioCtx, currentTime, decodes, calls,
                   devicePixelRatio, running, frameNo, pulls>>

\* if (destNode) { try { out.disconnect(destNode) } catch {} destNode = null }
Disconnect(dest, set) == IF dest # << >> THEN set \ {dest[1]} ELSE set

\* recorder && recorder.state !== "inactive"
Active == recorder # << >> /\ recs[recorder[1]].state # "inactive"

\* recorder.stop(): the recorder becomes inactive and its 'stop' event is
\* queued
StopRecorder ==
    IF Active
    THEN [recs EXCEPT ![recorder[1]] =
                          [state |-> "inactive", stopEvent |-> "queued"]]
    ELSE recs

\* The page is unmounted: the onBeforeUnmount hooks of useTempUrl (clear),
\* useAudioVisualizer (stop(); audioCtx.value.close()), useBeatBrightness
\* (stopLoop), useCanvasVisualizer (stopLoop) and useCanvasRecorder (an
\* active recorder is stopped, the download URL revoked, and the tap
\* disconnected if (destNode && outputNode.value): the page's output node
\* exists once ensureCtx has run) run, and the watchers are stopped.
Unmount ==
    /\ running = << >>
    /\ ~unmounted
    /\ unmounted' = TRUE
    /\ backgroundUrl' = << >>
    /\ revoked' = ClearRevokes(backgroundUrl, revoked)
    /\ lastCall' = "unmount"
    /\ audioCtx' = IF audioCtx = "none" THEN audioCtx ELSE "closed"
    /\ pauseOffset' = IF audioCtx = "none" THEN pauseOffset ELSE 0
    /\ nodes' = IF audioCtx = "none" THEN nodes ELSE StopSource
    /\ isPlaying' = FALSE
    /\ audioRafId' = FALSE
    /\ rafId' = FALSE
    /\ rafQueue' = IF rafId THEN rafQueue - 1 ELSE rafQueue
    /\ renderRafId' = FALSE
    /\ pending' = StopLoop(StopDetectorLoop(StopRAF(pending)))
    /\ recs' = StopRecorder
    /\ downloadUrl' = << >>
    /\ IF destNode # << >> /\ audioCtx # "none"
       THEN /\ connected' = Disconnect(destNode, connected)
            /\ destNode' = << >>
       ELSE UNCHANGED <<connected, destNode>>
    /\ UNCHANGED <<analyserRef, freqArray, detectorState, outputs, now, ticks,
                   changes, tk, beatTicks, pulses, dataArray, bassRunningAvg,
                   band, map, trial, isRecording, recorder, destsMade, error,
                   recCalls, buffer, source, startTime,
                   currentTime, decodes, resumes, calls, canvasRef, bgImg,
                   noiseImg, cacheVars, canvasesMade, patterns, urlsMade,
                   loads, drawn, freq, devicePixelRatio, running, frameNo,
                   pulls, events>>

\* The renderer alone: a canvas that comes and goes, background images that
\* load or fail, a device pixel ratio that changes.
InitRender ==
    /\ InitDetector /\ band = NoBand /\ map = NoMap /\ trial = NoTrial
    /\ InitPageVars /\ devicePixelRatio \in DprVals

NextRender ==
    \/ \E c \in {<< >>} \cup {<<e>> : e \in NewCanvases} : SetRecordCanvas(c)
    \/ SetFromFile
    \/ \E l \in loads : LoadResolve(l)
    \/ \E l \in loads : LoadReject(l)
    \/ \E d \in DprVals : DprChange(d)
    \/ Unmount
    \/ BeginFrame
    \/ RunRender

SpecRender == InitRender /\ [][NextRender]_vars

\* useTempUrl with the renderer's watcher on its url: files chosen, the
\* choice cleared, the images loading or failing, the page unmounted.
NextTempUrl ==
    \/ SetFromFile
    \/ Clear
    \/ \E l \in loads : LoadResolve(l)
    \/ \E l \in loads : LoadReject(l)
    \/ Unmount

SpecTempUrl == InitRender /\ [][NextTempUrl]_vars

\* The page with its three loops, every image load succeeding.  The canvas
\* is the template's (bound to 1920 x 1080, with a 2D context), one audio
\* file is chosen, of the shorter duration, which outlasts the few frames
\* of a run: no source runs out.
NextPage ==
    \/ \E c \in {<< >>, <<NewCanvas(canvasesMade + 1,
                                     <<CanvasWidth, CanvasHeight>>, TRUE)>>} :
          SetRecordCanvas(c)
    \/ SetFromFile
    \/ \E l \in loads : LoadResolve(l)
    \/ \E state \in (IF audioCtx = "none" THEN CtxStates ELSE {}) :
          LoadFile(state)
    \/ \E d \in {d \in Durations : \A e \in Durations : d <= e} :
          LoadFileDecoded(d)
    \/ HandlePlay
    \/ PlayResumed
    \/ \E i \in 1..Len(nodes) : Ended(i)
    \/ Unmount
    \/ BeginFrame
    \/ RunRender
    \/ RunDetector
    \/ RunAudio

SpecPage == Init /\ [][NextPage]_vars

(***************************************************************************)
(* useCanvasRecorder on its own: startRecording and stopRecording called   *)
(* in any order, the recorders' 'stop' events delivered later, the         *)
(* component unmounted: by a caller whose output node ref may be empty by  *)
(* then (RecorderUnmount), or as part of the page, whose loadFile creates  *)
(* the output node (Unmount).  A recorder is "recording" or "inactive",    *)
(* and its 'stop' event is not yet due ("none"), "queued" or "delivered".  *)
(***************************************************************************)
\* where startRecording's try block throws and what is thrown: nowhere, in
\* canvas.captureStream (before the tap is made) or in new MediaRecorder /
\* recorder.start() (after it); a value without a message (<< >>) or one
\* with a message, the empty string included
Faults ==
    {[at |-> "none", e |-> << >>]}
    \cup {[at |-> a, e |-> e] :
             a \in {"capture", "recorder"},
             e \in {<< >>, <<"">>, <<"not supported.">>}}

\* catch (e): error.value = e?.message ?? "Failed to start recording."
ErrorMessage(e) == IF e = << >> THEN "Failed to start recording." ELSE e[1]

\* what useCanvasRecorder leaves alone
besideRecorder == <<detectorVars, band, map, trial, rendererVars, audioVars,
                    browserVars, playerVars>>

\* startRecording; the function stays callable after the component is
\* unmounted
StartRecording(ready, fault) ==
    /\ recCalls < MaxRecCalls
    /\ recCalls' = recCalls + 1
    /\ IF ~ready
       THEN /\ error' = <<"Missing canvas or audio context/output node.">>
            /\ UNCHANGED <<isRecording, recorder, destNode, recs, destsMade,
                           connected>>
       ELSE IF fault.at = "capture"
       THEN /\ error' = <<ErrorMessage(fault.e)>>
            /\ recorder' = << >>
            /\ connected' = Disconnect(destNode, connected)
            /\ destNode' = << >>
            /\ UNCHANGED <<isRecording, recs, destsMade>>
       ELSE IF fault.at = "recorder"
       THEN /\ error' = <<ErrorMessage(fault.e)>>
            /\ recorder' = << >>
            /\ destsMade' = destsMade + 1
            /\ connected' = Disconnect(<<destsMade + 1>>,
                                       connected \cup {destsMade + 1})
            /\ destNode' = << >>
            /\ UNCHANGED <<isRecording, recs>>
       ELSE /\ error' = << >>
            /\ destsMade' = destsMade + 1
            /\ destNode' = <<destsMade + 1>>
            /\ connected' = connected \cup {destsMade + 1}
            /\ recs' = Append(recs, [state |-> "recording",
                                     stopEvent |-> "none"])
            /\ recorder' = <<Len(recs) + 1>>
            /\ isRecording' = TRUE
    /\ UNCHANGED <<besideRecorder, downloadUrl>>

StopRecording ==
    /\ recCalls < MaxRecCalls
    /\ recCalls' = recCalls + 1
    /\ recs' = StopRecorder
    /\ isRecording' = FALSE
    /\ UNCHANGED <<besideRecorder, recorder, destNode, destsMade, connected,
                   downloadUrl, error>>

\* recorder.onstop of recorder i: the tap in destNode is disconnected, the
\* blob gets an object URL
OnStop(i) ==
    /\ i \in 1..Len(recs)
    /\ recs[i].stopEvent = "queued"
    /\ recs' = [recs EXCEPT ![i].stopEvent = "delivered"]
    /\ connected' = Disconnect(destNode, connected)
    /\ destNode' = << >>
    /\ downloadUrl' = <<i>>
    /\ UNCHANGED <<besideRecorder, isRecording, recorder, destsMade, error,
                   recCalls>>

\* onBeforeUnmount: the recorder is stopped, the download URL revoked, and
\* the tap disconnected if (destNode && outputNode.value): out tells whether
\* the output node ref still holds a node
RecorderUnmount(out) ==
    /\ ~unmounted
    /\ unmounted' = TRUE
    /\ recs' = StopRecorder
    /\ downloadUrl' = << >>
    /\ IF destNode # << >> /\ out
       THEN /\ connected' = Disconnect(destNode, connected)
            /\ destNode' = << >>
       ELSE UNCHANGED <<connected, destNode>>
    /\ UNCHANGED <<detectorVars, band, map, trial, canvasRef, renderRafId,
                   bgImg, noiseImg, cacheVars, canvasesMade, patterns,
                   backgroundUrl, urlsMade, revoked, loads, drawn, audioVars,
                   browserVars, playerVars, isRecording, recorder, destsMade,
                   error, recCalls>>

NextRecorder ==
    \/ \E ready \in BOOLEAN, fault \in Faults : StartRecording(ready, fault)
    \/ StopRecording
    \/ \E i \in 1..Len(recs) : OnStop(i)
    \/ \E out \in BOOLEAN : RecorderUnmount(out)
    \/ \E state \in (IF audioCtx = "none" THEN CtxStates ELSE {}) :
          LoadFile(state)
    \/ Unmount

SpecRecorder == Init /\ [][NextRecorder]_vars

(***************************************************************************)
(* Properties of the beat detector.                                        *)
(***************************************************************************)
\* A tick that processed a spectrum / that detected a beat.
FullTick == tk.kind = "full"
BeatTick == FullTick /\ isBeat

\* C1: any two ticks that report a beat are at least cooldownMs apart,
\* whatever the frames and the (non-decreasing) tick timestamps.
C1_BeatsCooldownApart ==
    \A i \in 1..Len(beatTicks) : \A j \in 1..Len(beatTicks) :
        i < j => beatTicks[j] - beatTicks[i] >= BeatCooldownMs

\* Two beats were reported, and the latest tick was over the threshold but
\* held back by the cooldown.
C1_Witness ==
    /\ Len(beatTicks) >= 2
    /\ FullTick /\ ~isBeat
    /\ tk.combined * 10 > beatEnv * BeatThresholdMulTenths
    /\ tk.since <= BeatCooldownMs

\* C2: on a tick that processes a non-empty spectrum a beat fires iff
\* combined > beatEnvelope * thresholdMultiplier (the envelope as updated by
\* this tick) and now - lastBeatTimestamp > cooldownMs; when it fires
\* lastBeatTimestamp becomes now (and otherwise it is kept).
C2_BeatIffThresholdAndCooldown ==
    FullTick =>
        /\ isBeat <=> ( /\ tk.combined * 10 > beatEnv * BeatThresholdMulTenths
                        /\ now - tk.prevLastBeatTime > BeatCooldownMs )
        /\ lastBeatTime = IF isBeat THEN now ELSE tk.prevLastBeatTime

\* A beat fired on a tick later than the first one.
C2_Witness ==
    /\ BeatTick
    /\ ticks >= 2
    /\ lastBeatTime = now
    /\ tk.prevLastBeatTime > 0

\* C3: a tick on which a beat fires sets beatBoost to
\* max(previous beatBoost, combined - beatEnvelope), so never lowers it.
C3_BeatNeverLowersBoost ==
    BeatTick =>
        /\ beatBoost = Max(tk.prevBoost, tk.combined - beatEnv)
        /\ beatBoost >= tk.prevBoost

\* A weaker hit on a still-decaying impulse: beatBoost is left as it was.
C3_Witness ==
    /\ BeatTick
    /\ tk.prevBoost > 0
    /\ tk.combined - beatEnv < tk.prevBoost
    /\ tk.combined - beatEnv > 0
    /\ beatBoost = tk.prevBoost

\* C4: between two beats beatBoost never rises: a tick that processes a
\* spectrum without detecting a beat multiplies it by the decay factor and
\* sets it to exactly 0 once the product is below the snap threshold; any
\* other step that is not a beat leaves it alone, so 0 stays 0 until the
\* next beat.
C4_BoostDecaysBetweenBeats ==
    [][ ~(ticks' # ticks /\ tk'.kind = "full" /\ isBeat')
        => /\ beatBoost' <= beatBoost
           /\ beatBoost = 0 => beatBoost' = 0
           /\ (ticks' # ticks /\ tk'.kind = "full")
                => beatBoost' =
                     IF DecayTenths * beatBoost < 10 * SnapThreshold
                     THEN 0
                     ELSE (2 * DecayTenths * beatBoost + 10) \div 20 ]_vars

\* After a beat the impulse has decayed to 0 and the latest tick, not a
\* beat, found it at 0 and left it there.
C4_Witness ==
    /\ Len(beatTicks) >= 1
    /\ FullTick /\ ~isBeat
    /\ tk.prevBoost = 0
    /\ beatBoost = 0

\* C3 and C4 as they read for useBeatBrightness.ts under SpecTs: a beat sets
\* beatBoost to exactly 1, which never lowers it, and a tick without a beat
\* multiplies it by beatDecay and sets it to 0 below 0.01.
TsBeatSetsBoostToOne ==
    BeatTick => (beatBoost = BoostUnit /\ beatBoost >= tk.prevBoost)

TsBoostDecaysBetweenBeats ==
    [][ ~(ticks' # ticks /\ tk'.kind = "full" /\ isBeat')
        => /\ beatBoost' <= beatBoost
           /\ beatBoost = 0 => beatBoost' = 0
           /\ (ticks' # ticks /\ tk'.kind = "full")
                => beatBoost' =
                     IF TsDecayTenths * beatBoost < 10 * TsSnapThreshold
                     THEN 0
                     ELSE (2 * TsDecayTenths * beatBoost + 10) \div 20 ]_vars

TsBeatsSeen == Len(beatTicks) >= 2 /\ FullTick /\ ~isBeat /\ beatBoost > 0

\* C5: beatBoost lies in [0, 1] in every reachable state.
C5_BoostInUnitInterval == beatBoost >= 0 /\ beatBoost <= BoostUnit

\* C6: bassLevel and midLevel lie in [0, 1] in every reachable state.
C6_LevelsInUnitInterval ==
    /\ bassLevel >= 0 /\ bassLevel <= Unit
    /\ midLevel >= 0 /\ midLevel <= Unit

\* A full-scale bass band while the ramp is under way: the level is the
\* ramp itself, strictly between 0 and 1.
C6_Witness ==
    /\ FullTick
    /\ tk.bassNorm = Unit
    /\ tk.ramp > 0 /\ tk.ramp < Unit
    /\ bassLevel = tk.ramp
    /\ midLevel > 0 /\ midLevel < Unit

\* C10: a callback that finds a spectrum of zero bins changes neither the
\* outputs nor the detector state, and requests the next callback.
C10_ZeroBinTickIsNoOp ==
    [][ (ticks' # ticks /\ analyserRef # << >> /\ analyserRef = <<0>>)
        => /\ UNCHANGED <<detectorState, bassRunningAvg, outputs>>
           /\ rafId' /\ rafQueue' = 1 ]_vars

\* A zero-bin callback ran after the detector had built up state.
C10_Witness ==
    /\ tk.kind = "empty"
    /\ beatBoost > 0 /\ isBeat
    /\ smoothedBass > 0 /\ startTs # << >>
    /\ rafId /\ rafQueue = 1

\* C11: once the detector is constructed nothing resets its state: an
\* analyser appearing or disappearing leaves smoothedBass, smoothedMid,
\* beatEnv, lastBeatTime and the ramp start alone, the ramp start is assigned
\* once, lastBeatTime changes only on a beat (to the time of that beat), and
\* no tick puts a baseline or the envelope back to 0.
C11_StateResetOnlyByConstruction ==
    [][ /\ (analyserRef' # analyserRef) => UNCHANGED detectorState
        /\ (startTs # << >>) => (startTs' = startTs)
        /\ (lastBeatTime' # lastBeatTime) => (isBeat' /\ lastBeatTime' = now')
        /\ (smoothedBass > 0) => (smoothedBass' > 0)
        /\ (smoothedMid > 0) => (smoothedMid' > 0)
        /\ (beatEnv > 0) => (beatEnv' > 0) ]_vars

\* The analyser went away and came back after the detector had built up
\* state.
C11_Restarted ==
    /\ changes >= 3
    /\ analyserRef # << >>
    /\ ticks >= 1
    /\ rafId

\* The least k with from * decayFactor^k < below, that is
\* ceil(log(below / from) / log(decayFactor)), by repeated multiplication.
RECURSIVE DecayTicks(_, _)
DecayTicks(from, below) ==
    IF from < below THEN 0
    ELSE 1 + DecayTicks(RDiv(from * DecayTenths, 10), below)

\* C22: after steady state on frames of magnitude 20, one tick at magnitude
\* 255 followed by ticks at 20, 60 ticks per second: the transient tick
\* fires a beat and leaves beatBoost positive, no other tick fires one, and
\* beatBoost is exactly 0 from ceil(log(0.01) / log(decayFactor)) ticks after
\* the transient on.
C22_TransientOneBeatThenDecay ==
    (trial.phase = "after") =>
        /\ trial.beatAt /\ trial.boost > 0
        /\ trial.beats = 1
        /\ (ticks - trial.at >= DecayTicks(BoostUnit, BoostUnit \div (10 * 10)))
               => beatBoost = 0

\* The transient of C22 fired its one beat and the ticks after it fired
\* none.
C22_OneBeat ==
    /\ trial.phase = "after"
    /\ ticks = trial.at + MaxAfterTicks
    /\ trial.beatAt /\ trial.beats = 1
    /\ trial.boost > 0

\* C23: on the first tick on which the detector observes signal (the tick
\* that records the ramp start) the envelope is set to that tick's combined
\* relative energy, no beat fires and beatBoost stays 0.
C23_NoBeatOnFirstSignalTick ==
    [][ (ticks' # ticks /\ tk'.kind = "full"
         /\ startTs = << >> /\ startTs' # << >>)
        => /\ beatEnv' = tk'.combined
           /\ ~isBeat'
           /\ beatBoost' = 0 ]_vars

\* C24: on every tick up to and including the first one on which bassNorm
\* or midNorm exceeds 0.001 the ramp is 0 and both levels are 0; that tick
\* records the ramp start, and from then on ramp = min(1, (now - rampStart)
\* / rampDurationMs) and each level is min(1, norm^gamma * ramp).
C24_RampGatesLevels ==
    [][ /\ (startTs' = << >>) => (bassLevel' = 0 /\ midLevel' = 0)
        /\ (ticks' # ticks /\ tk'.kind = "full") =>
              IF startTs = << >>
              THEN /\ tk'.ramp = 0
                   /\ bassLevel' = 0 /\ midLevel' = 0
                   /\ startTs' = IF tk'.bassNorm > SignalEps
                                    \/ tk'.midNorm > SignalEps
                                 THEN <<now'>> ELSE << >>
              ELSE /\ startTs' = startTs
                   /\ tk'.ramp = Min(Unit, RDiv((now' - startTs[1]) * Unit,
                                                RampDurationMs))
                   /\ bassLevel' = Min(Unit, Mul(PowGamma(tk'.bassNorm),
                                                 tk'.ramp))
                   /\ midLevel' = Min(Unit, Mul(PowGamma(tk'.midNorm),
                                                tk'.ramp)) ]_vars

\* After a silent tick, the first tick with signal: it recorded the ramp
\* start and both levels are still 0.
C24_Witness ==
    /\ FullTick /\ ticks >= 2
    /\ startTs = <<now>>
    /\ tk.bassNorm > SignalEps /\ tk.midNorm > SignalEps
    /\ tk.ramp = 0
    /\ bassLevel = 0 /\ midLevel = 0

\* The ramp under way on a later tick: the levels follow it.
C24_Ramping ==
    /\ FullTick /\ startTs # << >> /\ startTs[1] < now
    /\ tk.ramp > 0 /\ tk.ramp < Unit
    /\ bassLevel > 0

\* C25: isBeat is true only in the state left by a tick that detected a
\* beat: a tick that fires no beat (a zero-bin tick and a tick skipped for a
\* missing buffer included) leaves it false.
C25_IsBeatOnlyOnBeatTick == isBeat => FullTick

\* C29: while its component is mounted the detector loop has a pending
\* animation-frame request if and only if an analysis node is present: none
\* with no analyser, cancelled when the analyser goes away, requested again
\* when one comes back.
C29_LoopPendingIffAnalyser ==
    ~unmounted =>
        /\ rafId <=> (analyserRef # << >>)
        /\ rafQueue = (IF analyserRef # << >> THEN 1 ELSE 0)

\* The analyser went away after the loop had ticked, and came back: the
\* loop is pending again.
C29_Witness ==
    /\ changes >= 3 /\ ticks >= 1
    /\ analyserRef # << >>
    /\ rafId /\ rafQueue = 1

\* The analyser went away after the loop had ticked: nothing is pending.
C29_Stopped ==
    /\ changes >= 2 /\ ticks >= 1
    /\ analyserRef = << >>
    /\ ~rafId /\ rafQueue = 0

(***************************************************************************)
(* Properties of the band energy extractor.                                *)
(***************************************************************************)
Extracted == band.phase \in {"inline", "avgBand"}

\* C7: for every bin count N >= 1 and every band range with both fractions
\* in [0, 1], the bin window sampled lies within [0, N] and is non-empty.
C7_WindowNonEmptyInBounds ==
    Extracted =>
        /\ 0 <= band.start
        /\ band.end <= Len(band.frame)
        /\ band.end > band.start

\* The sum of the magnitudes of the bins of a set.
RECURSIVE SumBins(_, _)
SumBins(frame, S) ==
    IF S = {} THEN 0
    ELSE LET i == CHOOSE j \in S : TRUE
         IN  Bin(frame, i) + SumBins(frame, S \ {i})

\* The arithmetic mean of all the magnitudes of bins lo..hi-1, over 255.
MeanOver255(frame, lo, hi) ==
    RDiv(SumBins(frame, lo..(hi - 1)) * Unit, (hi - lo) * 255)

\* C8: the band energy is the arithmetic mean of all the magnitudes in the
\* band's bin window, zero-valued bins counted, divided by 255.
C8_BandEnergyIsMean ==
    (Extracted /\ band.end > band.start) =>
        band.norm = MeanOver255(band.frame, band.start, band.end)

\* C9: the normalized band energy is in [0, 1] for any frame with magnitudes
\* in 0..255 and any band range.
C9_BandNormInUnitInterval ==
    Extracted => (band.norm >= 0 /\ band.norm <= Unit)

\* The inlined extractor averaged a window of several full-scale bins to
\* exactly 1.
C9_Witness ==
    /\ band.phase = "inline"
    /\ band.end - band.start >= 2
    /\ band.end <= Len(band.frame)
    /\ \A i \in band.start..(band.end - 1) : Bin(band.frame, i) = 255
    /\ band.norm = Unit

(***************************************************************************)
(* Properties of the parameter mappers.                                    *)
(***************************************************************************)
\* C12: edge intensity and center intensity are in [0, 1] for every
\* bassLevel, midLevel and beatBoost (above 1 included) and every weight
\* set, in the DOM mappers and in the canvas renderer.
C12_IntensitiesInUnitInterval ==
    (map.phase \in {"edge", "center", "canvas"}) =>
        /\ map.edge >= 0 /\ map.edge <= Unit
        /\ map.center >= 0 /\ map.center <= Unit

\* The DOM edge mapper clamped a weighted sum far above 1 (heavy weights,
\* beatBoost above 1) to exactly 1.
C12_Witness ==
    /\ map.phase = "edge"
    /\ map.boost > BoostUnit
    /\ map.w.bass + map.w.mid + map.w.beat > WeightDen
    /\ WeightedSum(map.bass, map.mid, map.boost, map.w) > Unit
    /\ map.edge = Unit

\* C13 as stated: with bassLevel = midLevel = beatBoost = 0 grain opacity
\* equals baseOpacity, for every configured baseOpacity and maxOpacity.
C13_GrainFloorAnyOpacities ==
    (map.phase \in {"grain", "canvas"}
     /\ map.bass = 0 /\ map.mid = 0 /\ map.boost = 0) =>
        map.grain = map.baseOpacity * WeightDen

\* C13 as amended: provided 0 <= baseOpacity <= maxOpacity, grain opacity
\* equals baseOpacity when all three levels are 0, and with non-negative
\* weights it is never less than baseOpacity.
C13_GrainFloorWithinCap ==
    (map.phase \in {"grain", "canvas"}
     /\ 0 <= map.baseOpacity /\ map.baseOpacity <= map.maxOpacity) =>
        /\ (map.bass = 0 /\ map.mid = 0 /\ map.boost = 0)
               => map.grain = map.baseOpacity * WeightDen
        /\ (map.w.bass >= 0 /\ map.w.mid >= 0 /\ map.w.beat >= 0)
               => map.grain >= map.baseOpacity * WeightDen

\* The DOM grain mapper at silence with the default opacities: exactly the
\* base opacity.
C13_Witness ==
    /\ map.phase = "grain"
    /\ map.bass = 0 /\ map.mid = 0 /\ map.boost = 0
    /\ map.baseOpacity = 8 /\ map.maxOpacity = 45
    /\ map.grain = 8 * WeightDen

\* C27: grain opacity is within [0, maxOpacity] for every bassLevel,
\* midLevel, beatBoost and weight set, in the DOM mapper and in the canvas
\* renderer, and the renderer draws the grain layer only when a noise
\* texture is loaded and the opacity exceeds 0.01.
C27_GrainWithinCapAndGated ==
    (map.phase \in {"grain", "canvas"}) =>
        /\ map.grain >= 0 /\ map.grain <= map.maxOpacity * WeightDen
        /\ ("grain" \in map.layers)
               => (map.noise # << >> /\ map.grain > GrainThreshold)

\* The renderer drew the grain layer at an opacity that a beatBoost above 1
\* had pushed to the cap.
C27_Witness ==
    /\ map.phase = "canvas"
    /\ map.boost > BoostUnit
    /\ DrawBaseOpacity * WeightDen
         + WeightedSum(map.bass, map.mid, map.boost, DrawGrainWeights)
           > DrawMaxOpacity * WeightDen
    /\ map.grain = DrawMaxOpacity * WeightDen
    /\ "grain" \in map.layers

\* The renderer, a background loaded and no noise texture: no grain layer.
C27_NoNoise ==
    /\ map.phase = "canvas"
    /\ map.bg # << >> /\ map.noise = << >>
    /\ map.grain > GrainThreshold
    /\ "grain" \notin map.layers /\ "desaturation" \in map.layers

(***************************************************************************)
(* Properties of the renderer and of the frame loops.                      *)
(***************************************************************************)
\* C14: a render tick rebuilds the center and edge gradients if and only if
\* it is the first tick on its canvas or the device pixel ratio differs
\* from the previous tick's (the logical size is fixed), for every pixel
\* ratio, fractional ones included.
C14_GradientsRebuiltIffChanged ==
    (drawn.seq > 0 /\ drawn.kind = "drawn") =>
        (drawn.rebuilt <=> (drawn.first \/ drawn.dprChanged))

\* A tick on a canvas already set up, at an unchanged whole pixel ratio,
\* reused the gradients.
C14_Reused ==
    /\ drawn.seq > 1 /\ drawn.kind = "drawn"
    /\ ~drawn.first /\ ~drawn.dprChanged /\ ~drawn.rebuilt
    /\ centerGrad # << >> /\ centerGrad[1] < drawn.seq

\* C15: bgImg changes only when a load of a background image resolves (to
\* that image) or when the URL is cleared (to null); a load that fails
\* leaves the image displayed in place.
C15_FailedLoadKeepsBackground ==
    [][ (bgImg' # bgImg) =>
            \/ \E l \in loads \ loads' : l.kind = "bg" /\ bgImg' = <<l.url>>
            \/ backgroundUrl' = << >> /\ bgImg' = << >> ]_vars

\* Number of requests of callback cb not yet run or cancelled.
Requests(cb) == Len(SelectSeq(pending \o running, LAMBDA x : x = cb))

\* C16: each frame loop (render, detector, audio) has at most one pending
\* animation-frame request at any time.
C16_OneRequestPerLoop ==
    /\ Requests("render") <= 1
    /\ Requests("detector") <= 1 /\ rafQueue <= 1
    /\ Requests("audio") <= 1

\* The three loops run side by side, each with exactly one request, over
\* several frames.
C16_Witness ==
    /\ Requests("render") = 1 /\ Requests("detector") = 1
    /\ Requests("audio") = 1
    /\ frameNo >= 2
    /\ canvasRef # << >> /\ drawn.seq >= 2 /\ ticks >= 2

\* C17: once the render loop or the detector loop is stopped its handle is
\* cleared and its request cancelled, and no callback of that loop runs
\* while it is stopped.
C17_StoppedLoopDoesNotTick ==
    [][ /\ (drawn'.seq # drawn.seq) => renderRafId
        /\ (ticks' # ticks) => rafId
        /\ ~renderRafId' => Requests("render")' = 0
        /\ ~rafId' => (Requests("detector")' = 0 /\ rafQueue' = 0) ]_vars

\* The render loop was stopped after it had drawn, while the detector loop
\* goes on.
C17_Witness ==
    /\ drawn.seq >= 1
    /\ ~renderRafId /\ canvasRef = << >>
    /\ Requests("render") = 0
    /\ rafId /\ Requests("detector") = 1
    /\ ~unmounted

\* C18: once the page is unmounted nothing modifies the renderer's state:
\* an image load that resolves or fails later is discarded.
C18_LoadAfterTeardownDiscarded ==
    [][ unmounted => UNCHANGED <<bgImg, noiseImg, canvasRef, cacheVars>> ]_vars

\* C19: in a frame in which both the detector and the renderer run, the
\* render tick draws with the levels computed by the detector tick of that
\* frame.
C19_DetectionPrecedesRendering ==
    (/\ drawn.seq > 0 /\ drawn.kind = "drawn" /\ drawn.bg # << >>
     /\ drawn.frameNo = frameNo
     /\ ticks >= 1 /\ now = frameNo * NominalDt) =>
        /\ drawn.ticks = ticks
        /\ <<drawn.bass, drawn.mid, drawn.boost, drawn.beat>> = outputs

\* A frame in which the detector ran before the renderer drew.
C19_DetectorFirst ==
    /\ drawn.seq > 0 /\ drawn.kind = "drawn" /\ drawn.bg # << >>
    /\ drawn.frameNo = frameNo
    /\ ticks >= 1 /\ now = frameNo * NominalDt
    /\ drawn.ticks = ticks

\* C20: the spectrum is pulled from the analyser at most once per display
\* frame.
C20_OnePullPerFrame == pulls <= 1

\* A render tick that got as far as drawing.
Drew == drawn.seq > 0 /\ drawn.kind = "drawn"

\* C21: the render loop has a pending tick only while both a drawing
\* surface and an analysis node are available: with either of them absent
\* its handle is released and no request is pending.
C21_RenderLoopNeedsSurfaceAndState ==
    (renderRafId \/ Requests("render") > 0)
        => (canvasRef # << >> /\ analyserRef # << >>)

\* C26: on every render tick with a usable surface only the step whose
\* input is missing is skipped: the background is drawn iff an image is
\* loaded, the desaturation pass is always composited, each glow is
\* composited when its intensity is positive, and the grain is drawn iff a
\* noise texture is loaded (and its opacity is above the threshold).
C26_OnlyMissingStepSkipped ==
    Drew =>
        /\ ("background" \in drawn.layers) <=> (drawn.bg # << >>)
        /\ "desaturation" \in drawn.layers
        /\ (drawn.center > 0) => ("center" \in drawn.layers)
        /\ (drawn.edge > 0) => ("edge" \in drawn.layers)
        /\ ("grain" \in drawn.layers)
               <=> (drawn.noise # << >> /\ drawn.grain > GrainThreshold)

\* A tick with a background and no noise texture: everything but the grain
\* was composited.
C26_OnlyGrainSkipped ==
    /\ Drew
    /\ drawn.bg # << >> /\ drawn.noise = << >>
    /\ drawn.center > 0 /\ drawn.edge > 0
    /\ drawn.layers = {"background", "center", "edge", "desaturation"}

\* this step is a render tick whose setup acquired the context (again)
Reacquired ==
    /\ drawn'.seq # drawn.seq
    /\ drawn'.kind = "drawn" /\ drawn'.rebuilt

\* C28: the grain pattern is created at most once per (rendering context,
\* noise image) pair: no pattern is created from a context and an image
\* that a pattern was created from before, a cached pattern is replaced
\* or dropped only by a tick that re-acquired the context (the noise image,
\* loaded once, never changes), and whenever the grain layer is drawn the
\* cached pattern was made from the current context and the current noise
\* image.
C28_GrainPatternCachedPerContext ==
    [][ /\ (patterns' # patterns) =>
              /\ grainPattern' = <<patterns'[Len(patterns')]>>
              /\ \A i \in 1..Len(patterns) :
                     patterns[i] # patterns'[Len(patterns')]
              /\ (grainPattern # << >>) =>
                     (Reacquired \/ grainPattern[1].img # noiseImg'[1])
        /\ (grainPattern' # grainPattern) =>
              (patterns' # patterns \/ (grainPattern' = << >> /\ Reacquired))
        /\ (drawn'.seq # drawn.seq /\ drawn'.kind = "drawn"
            /\ "grain" \in drawn'.layers) =>
              grainPattern' = <<[img |-> noiseImg'[1], ctx |-> ctx'[1]]>> ]_vars

\* A second canvas element was set up and the pattern rebuilt for its
\* context, and the latest tick drew the grain with the cached pattern.
C28_RebuiltForNewContext ==
    /\ Drew /\ "grain" \in drawn.layers /\ ~drawn.rebuilt
    /\ Len(patterns) >= 2
    /\ patterns[1].ctx # patterns[2].ctx
    /\ grainPattern = <<patterns[Len(patterns)]>>
    /\ grainPattern[1].ctx = drawn.ctx

\* C30: whenever drawFrame draws, the cached 2D context and the gradients
\* built from it belong to the canvas element that is in canvasRef, also
\* when that element arrived with the target width and height at an
\* unchanged device pixel ratio.
C30_ContextOfCurrentCanvas ==
    Drew =>
        /\ drawn.ctx.canvas = drawn.canvas
        /\ centerGrad # << >> /\ centerGrad[2] = drawn.canvas
        /\ edgeGrad # << >> /\ edgeGrad[2] = drawn.canvas

\* A second canvas element was mounted and set up: the context and the
\* gradients are its own.
C30_SecondCanvasSetUp ==
    /\ Drew /\ drawn.canvas >= 2
    /\ drawn.ctx.canvas = drawn.canvas
    /\ centerGrad[2] = drawn.canvas

(***************************************************************************)
(* Properties of overlapping image loads.                                  *)
(***************************************************************************)
\* no load of a background image is in flight
BgLoadsSettled == \A l \in loads : l.kind # "bg"

\* C31: once every pending background load has settled, bgImg is the image
\* of the current backgroundUrl or null, whatever the order in which
\* overlapping loads resolve: a load started for an earlier URL never
\* overwrites the result for a later one.
C31_BgImgOfLatestUrl ==
    (~unmounted /\ BgLoadsSettled) =>
        (bgImg = << >> \/ bgImg = backgroundUrl)

(***************************************************************************)
(* Properties of the audio player.                                         *)
(***************************************************************************)
\* what an 'ended' event of a replaced node must leave alone
playback == <<isPlaying, pauseOffset, audioRafId, pending>>

\* C32: an 'ended' event dispatched for a source node that a later play()
\* has replaced changes neither isPlaying nor pauseOffset nor the frame loop
\* of the new playback.
C32_StaleEndedChangesNothing ==
    [][\A i \in 1..Len(nodes) :
          (Ended(i) /\ source # <<i>>) => UNCHANGED playback]_vars

\* C33: whenever no callback is executing, the audio frame loop has a
\* pending animation-frame request if and only if isPlaying is true, also
\* after a frame handler called pause() or stop().
C33_LoopPendingIffPlaying ==
    running = << >> => (Requests("audio") > 0 <=> isPlaying)

\* C34: after any sequence of loadFile, play, pause, stop and 'ended'
\* events, 0 <= pauseOffset <= the duration of the current buffer (0 with no
\* buffer), and isPlaying is true only if a buffer has been decoded.
C34_OffsetWithinBuffer ==
    /\ 0 <= pauseOffset
    /\ pauseOffset <= (IF buffer = << >> THEN 0 ELSE buffer[1])
    /\ isPlaying => buffer # << >>

\* pause() was called later than the buffer of the running source ran out:
\* the offset is capped at the duration.
C34_Witness ==
    /\ lastCall = "pause"
    /\ buffer # << >>
    /\ currentTime - startTime > buffer[1]
    /\ pauseOffset = buffer[1]

\* playing from an offset inside the buffer, after a pause
C34_Resumed ==
    /\ isPlaying /\ Len(nodes) >= 2
    /\ startTime < currentTime /\ currentTime - startTime < buffer[1]

\* C35: pause() called again while paused, with no other call in between
\* and the audio clock advancing, leaves pauseOffset unchanged.
C35_PauseIdempotent ==
    [][(PlayerPause /\ lastCall = "pause") => pauseOffset' = pauseOffset]_vars

(***************************************************************************)
(* Properties of silence.                                                  *)
(***************************************************************************)
ThresholdMuls == {10, 14, 25}          \* beatThresholdMul 1, 1.4, 2.5: tenths

\* C36: if every spectrum frame is all zeros, then on every tick isBeat is
\* false and bassLevel, midLevel and beatBoost stay 0, for any tick
\* timestamps; the beat test of a tick fails for any threshold multiplier of
\* 1 or more, so the run is the same for each of them.
C36_SilenceGivesNoOutput ==
    /\ ~isBeat
    /\ bassLevel = 0 /\ midLevel = 0 /\ beatBoost = 0
    /\ tk.kind = "full" =>
          \A mul \in ThresholdMuls : ~(tk.combined * 10 > beatEnv * mul)

\* a silent spectrum was processed later than the cooldown after the time
\* origin, with the envelope at its resting value
C36_Witness ==
    /\ tk.kind = "full" /\ ticks >= 2
    /\ tk.bassNorm = 0 /\ tk.midNorm = 0
    /\ tk.since > BeatCooldownMs
    /\ beatEnv > 0 /\ tk.combined = beatEnv

\* the same for useBeatBrightness.ts, whose beat test is
\* bassTarget > bassRunningAvg * beatThresholdMul
TsSilenceGivesNoOutput ==
    /\ ~isBeat
    /\ bassLevel = 0 /\ midLevel = 0 /\ beatBoost = 0
    /\ tk.kind = "full" =>
          \A mul \in ThresholdMuls :
             ~(tk.bassTarget * Scale * 10 > bassRunningAvg * mul)

TsSilentTick ==
    tk.kind = "full" /\ ticks >= 2 /\ tk.since > BeatCooldownMs

(***************************************************************************)
(* The canvas path against the DOM path.                                   *)
(***************************************************************************)
\* C37: for every bassLevel and midLevel in [0, 1] and beatBoost >= 0, the
\* center intensity, edge intensity and grain opacity that drawFrame
\* computes inline equal those of useCenterGlow, useEdgeGlow and
\* useGrainOverlay with the options VisualizerDom passes.
C37_CanvasEqualsDom ==
    map.phase = "canvas" =>
        /\ map.center = CenterIntensity(map.bass, map.mid, map.boost,
                                        DomCenterWeights)
        /\ map.edge = EdgeIntensity(map.bass, map.mid, map.boost,
                                    DomEdgeWeights)
        /\ map.grain = GrainOpacity(map.bass, map.mid, map.boost,
                                    DomGrainWeights, DomBaseOpacity,
                                    DomMaxOpacity)

\* drawFrame computed three values strictly inside their ranges
C37_Witness ==
    /\ map.phase = "canvas"
    /\ 0 < map.center /\ map.center < Unit
    /\ 0 < map.edge /\ map.edge < Unit
    /\ DomBaseOpacity * WeightDen < map.grain
    /\ map.grain < DomMaxOpacity * WeightDen

\* drawFrame computed values at their caps, beatBoost above 1
C37_Capped ==
    /\ map.phase = "canvas" /\ map.boost > BoostUnit
    /\ map.center = Unit /\ map.edge = Unit
    /\ map.grain = DomMaxOpacity * WeightDen

(***************************************************************************)
(* Properties of useTempUrl.                                               *)
(***************************************************************************)
\* the object URLs created and not revoked
Unrevoked == (1..urlsMade) \ revoked

\* C38: useTempUrl holds at most one unrevoked object URL: after any
\* sequence of setFromFile and clear calls every URL it created except the
\* current one has been revoked, and after unmount all of them have been
\* revoked and url is null.
C38_OnlyCurrentUrlUnrevoked ==
    /\ Unrevoked = {u \in 1..urlsMade : backgroundUrl = <<u>>}
    /\ unmounted => (Unrevoked = {} /\ backgroundUrl = << >>)

\* a second file replaced the first, whose URL was revoked
C38_Witness ==
    /\ urlsMade >= 2
    /\ backgroundUrl = <<urlsMade>>
    /\ revoked = 1..(urlsMade - 1)

\* unmounted with a file chosen: its URL was revoked
C38_Unmounted ==
    unmounted /\ urlsMade >= 1 /\ revoked = 1..urlsMade

(***************************************************************************)
(* Properties of the canvas recorder.                                      *)
(***************************************************************************)
Recording == {i \in 1..Len(recs) : recs[i].state = "recording"}
StopsQueued == {i \in 1..Len(recs) : recs[i].stopEvent = "queued"}

\* C39: at most one recorder and one audio tap are active at any time, and
\* once isRecording is false and the stop events have been delivered every
\* destination node that startRecording connected is disconnected and
\* every recorder it started is stopped.
C39_OneRecorderOneTap ==
    /\ Cardinality(Recording) <= 1
    /\ Cardinality(connected) <= 1
    /\ (~isRecording /\ StopsQueued = {}) =>
           (connected = {} /\ Recording = {})

\* one recording started, stopped and its stop event delivered: the tap is
\* disconnected and the blob has its URL
C39_CleanStop ==
    /\ Len(recs) = 1 /\ recs[1].stopEvent = "delivered"
    /\ connected = {} /\ destsMade = 1 /\ downloadUrl = <<1>>

TypeOK ==
    /\ rafQueue \in 0..1
    /\ beatBoost >= 0
=============================================================================
